---- MODULE Spec2Model ----
(***************************************************************************)
(* Joint drive tuning panel of the URDF importer                           *)
(* (isaacsim.asset.importer.urdf, scripts/ui/UrdfJointWidgetWithID.py and  *)
(* scripts/ui/UrdfOptionWidget.py, driven from scripts/extension.py).      *)
(*                                                                         *)
(* Floats are fixed-point integers in units of 1/Scale.  Every value the   *)
(* model feeds in is a multiple of 1/2, so the products the code forms     *)
(* (m*f*f and 2*m*f*r) are exact both here and in IEEE arithmetic.         *)
(*                                                                         *)
(* omni.ui value models (SimpleFloatModel, SimpleIntModel) run their       *)
(* value-changed callbacks, in registration order, only when set_value     *)
(* stores a value different from the current one.  A callback chain runs   *)
(* to completion inside the action of the user operation that starts it.   *)
(*                                                                         *)
(* Five specifications share the variables.  Spec is the joint panel.      *)
(* ConfigSpec is the options panel with no file chosen: the controls that  *)
(* write the import configuration, and reset_config.  ImportSpec is the    *)
(* import of a loaded robot: _load_robot with its coroutines, the          *)
(* application updates, and the URDFParseAndImportFile command             *)
(* (scripts/commands.py).  StartupSpec is the enabling and disabling of    *)
(* the extension with the Singleton decorator of UrdfImporter.             *)
(* StartImportSpec is the source panel and the importer delegate: files    *)
(* are chosen and parsed, start_import opens its windows, and their        *)
(* callbacks reach _load_robot.  The variables of the source panel are     *)
(* written by the actions of StartImportSpec only, those of the extension  *)
(* object by the actions of StartupSpec only.                              *)
(*                                                                         *)
(* Not modelled: the reset button of ResetableLabelField and its default   *)
(* values, column sorting, styling and layout, the contents of the USD     *)
(* files, and the destination path arithmetic of _load_robot.              *)
(***************************************************************************)
EXTENDS Integers, Sequences, FiniteSets, TLC

VARIABLES
    robot,             \* the parsed robot model: sequence of raw joints (static part)
    drive,             \* joint.drive of every raw joint
    has_widget,        \* UrdfOptionWidget._joint_widget is not None
    children,          \* UrdfJointListModel._children: raw joint indexes, in order
    model_cols,        \* UrdfJointItem.model_cols (combo + four float models) and item.mode
    value_field,       \* UrdfJointItem.value_field: which widgets exist, enabled, visible
    selection,         \* TreeView.selection, in iteration order
    enable_bulk_edit,  \* UrdfJointWidget._enable_bulk_edit
    mode,              \* UrdfJointWidget.mode
    list_mode,         \* UrdfJointListModel._mode
    delegate_mode,     \* UrdfJointItemDelegate.__mode
    drive_type,        \* UrdfJointWidget.drive_type
    parse_mimic,       \* config.parse_mimic
    edit_mode_radio,   \* UrdfOptionWidget._edit_mode_collection.model
    drive_type_radio,  \* UrdfOptionWidget._drive_type_collection.model
    dirty,             \* the TreeView has to rebuild its rows at the next frame
    overflow,          \* a callback chain made more than MaxCalls calls
    config,            \* UrdfImporter._config: the ImportConfig fields other than parse_mimic
    files,             \* the paths at which omni.client.read_file finds a readable file
    call_log,          \* the calls the last import command made, in order
    stage,             \* the stage open in the USD context
    frame,             \* application updates so far
    tasks,             \* the coroutines handed to asyncio.ensure_future
    returned,          \* what the last _load_robot returned
    instances,         \* Singleton.instances: class name -> object
    objects,           \* the UrdfImporter objects constructed so far
    extension,         \* Extension: started, window, and _delegate._importer
    handles,           \* what every UrdfImporter(...) call so far was given and returned
    models,            \* UrdfImporter._models: input_file, dst_path, import_as_reference
                       \* and the enabled flags of import_btn and refresh_btn
    robot_model,       \* UrdfImporter._robot_model: None, or the file it was parsed from
    dialogs,           \* the modal windows start_import has opened and nobody has closed
    loads,             \* the imports _load_robot has made, in order
    notified,          \* error notifications posted by convert_assets
    steps,             \* number of user operations so far
    last               \* the operation that produced this state

vars == <<robot, drive, has_widget, children, model_cols, value_field, selection,
          enable_bulk_edit, mode, list_mode, delegate_mode, drive_type, parse_mimic,
          edit_mode_radio, drive_type_radio, dirty, overflow, config, files, call_log, stage,
          frame, tasks, returned, instances, objects, extension, handles, models,
          robot_model, dialogs, loads, notified, steps, last>>

-----------------------------------------------------------------------------
(* Bounds *)

\* user operations in one session (frames drawn in between are not counted)
MaxSteps == 4
\* calls one user operation may make before its callback chain is given up
MaxCalls == 400
\* coroutines scheduled in one session
MaxTasks == 2
\* application updates in one session
MaxFrames == 3

-----------------------------------------------------------------------------
(* Program constants *)

\* fixed-point unit: 1.0 is Scale (three binary digits after the point)
Scale == 2 * 2 * 2

STIFFNESS == "STIFFNESS"
NATURAL_FREQUENCY == "NATURAL_FREQUENCY"
ACCELERATION == "ACCELERATION"
FORCE == "FORCE"

JOINT_FIXED == "fixed"
JOINT_REVOLUTE == "revolute"
JOINT_PRISMATIC == "prismatic"

\* UrdfJointTargetType / combo indexes
JOINT_DRIVE_NONE == 0
JOINT_DRIVE_POSITION == 1
JOINT_DRIVE_VELOCITY == 2
MIMIC_INDEX == 3

\* UrdfJointItem.target_type and UrdfJointItem.target_type_with_mimic
target_type == <<"None", "Position", "Velocity">>
target_type_with_mimic == <<"None", "Position", "Velocity", "Mimic">>

-----------------------------------------------------------------------------
(* Inputs: the robots a URDF file may parse to, and the values a user types *)

RawJoint(ty, mim, inertia, tt, k, d, f, r) ==
    [type |-> ty, mimic |-> mim, inertia |-> inertia,
     drive |-> [target_type |-> tt, drive_type |-> ACCELERATION,
                strength |-> k, damping |-> d,
                natural_frequency |-> f, damping_ratio |-> r]]

\* an arm: a fixed base joint, a position joint (inertia 2.0) and a velocity joint (inertia 0.5)
RobotArm ==
    << RawJoint(JOINT_FIXED, FALSE, 8, JOINT_DRIVE_NONE, 0, 0, 0, 0),
       RawJoint(JOINT_REVOLUTE, FALSE, 16, JOINT_DRIVE_POSITION, 8, 16, 8, 8),
       RawJoint(JOINT_PRISMATIC, FALSE, 4, JOINT_DRIVE_VELOCITY, 8, 16, 12, 4) >>

\* a gripper: an undriven finger, a fixed joint, and a finger that mimics the first
\* (its drive is stored as a velocity drive)
RobotGripper ==
    << RawJoint(JOINT_PRISMATIC, FALSE, 8, JOINT_DRIVE_NONE, 8, 16, 8, 8),
       RawJoint(JOINT_FIXED, FALSE, 8, JOINT_DRIVE_NONE, 0, 0, 0, 0),
       RawJoint(JOINT_PRISMATIC, TRUE, 8, JOINT_DRIVE_VELOCITY, 8, 16, 8, 8) >>

\* three position joints with different inertia, natural frequency and damping ratio
RobotTriple ==
    << RawJoint(JOINT_REVOLUTE, FALSE, 8, JOINT_DRIVE_POSITION, 64, 16, 8, 8),
       RawJoint(JOINT_REVOLUTE, FALSE, 16, JOINT_DRIVE_POSITION, 8, 4, 12, 4),
       RawJoint(JOINT_REVOLUTE, FALSE, 4, JOINT_DRIVE_POSITION, 8, 24, 16, 12) >>

Robots == {RobotArm, RobotGripper, RobotTriple}

\* values typed into the strength and damping fields (Stiffness mode)
StiffnessInputs == {24}
\* values typed into the natural-frequency field: 1.5 and 10.0
FrequencyInputs == {12, 80}
\* values typed into the damping-ratio field: 1.0 and 0.5
RatioInputs == {8, 4}

FieldInputs(k) ==
    IF k \in {2, 3} THEN StiffnessInputs
    ELSE IF k = 4 THEN FrequencyInputs ELSE RatioInputs

-----------------------------------------------------------------------------
(* Pure helpers *)

\* Python float product of two fixed-point values
FMul(a, b) == (a * b) \div Scale

\* SimpleFloatModel.get_value_as_int(): truncation, given back as a fixed-point value
AsInt(v) == IF v >= 0 THEN (v \div Scale) * Scale ELSE 0 - (((0 - v) \div Scale) * Scale)

\* m_eq: 1 for an acceleration drive, joint.inertia for a force drive
EquivalentInertia(w, i) ==
    IF w.drive[i].drive_type = FORCE THEN w.rob[i].inertia ELSE Scale

\* 2 * m_eq * self.natural_frequency * self.damping_ratio, evaluated left to right
DampingFormula(w, i) ==
    FMul(FMul(2 * EquivalentInertia(w, i), w.mc[i].val[4]), w.mc[i].val[5])

\* _urdf.compute_natural_stiffness(robot, joint_name, natural_frequency): K = m * f^2
compute_natural_stiffness(w, i, f) == FMul(FMul(EquivalentInertia(w, i), f), f)

\* ComboListModel.get_value_as_string
get_value_as_string(c) ==
    IF c.idx < c.nitems THEN target_type_with_mimic[c.idx + 1]
    ELSE target_type_with_mimic[c.defidx + 1]

\* UrdfJointItem._get_item_target_type
get_item_target_type(j) ==
    IF j.mimic THEN MIMIC_INDEX ELSE j.drive.target_type

\* UrdfJointItem.get_item_value for the two value columns
get_item_value(w, i, col) ==
    IF w.mc[i].mode = STIFFNESS THEN w.mc[i].val[col] ELSE AsInt(w.mc[i].val[col + 2])

\* `current_target == ["None"]`: a string compared with a list is never equal
IsNoneTarget(target) == FALSE

\* __on_target_change without its Velocity branch
on_target_change_all_enabled(w, i, target) ==
    LET f == w.vf[i]
        all == [f EXCEPT !.en = f.has, !.vis = f.has]
    IN [w EXCEPT !.vf[i] = IF target = "Mimic" /\ w.pm
                            THEN [all EXCEPT !.en = @ \ {1, 2, 3}, !.vis = @ \ {2, 3}]
                            ELSE all]

\* UrdfJointItemDelegate.__on_target_change
on_target_change(w, i, target) ==
    LET f == w.vf[i]
        all == [f EXCEPT !.en = f.has, !.vis = f.has]
        mim == IF target = "Mimic" /\ w.pm
               THEN [all EXCEPT !.en = @ \ {1, 2, 3}, !.vis = @ \ {2, 3}]
               ELSE all
        res == IF IsNoneTarget(target) THEN [mim EXCEPT !.en = @ \ {2, 3, 4, 5}]
               ELSE IF target = "Position" THEN [mim EXCEPT !.en = f.has, !.vis = f.has]
               ELSE IF target = "Velocity" THEN [mim EXCEPT !.en = @ \ {3, 5}]
               ELSE mim
    IN [w EXCEPT !.vf[i] = res]

-----------------------------------------------------------------------------
(* Callback chains.                                                        *)
(*                                                                         *)
(* A handler is an operator from the panel state w to the new state and    *)
(* the calls it makes next, in order (Ret).  Run executes a handler and    *)
(* then the calls it makes, depth first, which is the order in which       *)
(* Python runs nested callbacks; each call reads the state as it is when   *)
(* the call starts.                                                        *)

Call(op, a, b, c) == [op |-> op, a |-> a, b |-> b, c |-> c]
Ret(w, calls) == [w |-> w, calls |-> calls]

\* SimpleIntModel.set_value on ComboListModel._current_index: the combo's item-changed
\* subscribers (one per built row: __on_target_change) run first, then
\* UrdfJointItem._on_value_changed(1)
set_index(w, i, v) ==
    IF w.mc[i].idx = v THEN Ret(w, <<>>)
    ELSE LET w1 == [w EXCEPT !.mc[i].idx = v]
         IN Ret(IF 1 \in w1.vf[i].has
                THEN on_target_change(w1, i, get_value_as_string(w1.mc[i]))
                ELSE w1,
                <<Call("item_on_value_changed", i, 1, 0)>>)

\* ComboListModel.set_current_index
set_current_index(w, i, index) ==
    IF index < w.mc[i].nitems THEN Ret(w, <<Call("set_index", i, index, 0)>>)
    ELSE Ret(w, <<>>)

\* SimpleFloatModel.set_value on model_cols[c], c in 2..5, with its callbacks in
\* registration order: _on_value_changed(2 or 3), then on_update_*
set_value(w, i, c, v) ==
    IF w.mc[i].val[c] = v THEN Ret(w, <<>>)
    ELSE Ret([w EXCEPT !.mc[i].val[c] = v],
             <<Call("item_on_value_changed", i, IF c \in {2, 4} THEN 2 ELSE 3, 0),
               Call("on_update", i, c, 0)>>)

\* UrdfJointItem.set_item_value
set_item_value(w, i, col, value) ==
    IF col = 1 THEN Ret(w, <<Call("set_current_index", i, value, 0)>>)
    ELSE IF w.mc[i].mode = STIFFNESS THEN Ret(w, <<Call("set_value", i, col, value)>>)
    ELSE Ret(w, <<Call("set_value", i, col + 2, value)>>)

\* joint.drive.set_target_type(value)
set_target_type(w, i, value) == Ret([w EXCEPT !.drive[i].target_type = value], <<>>)

\* UrdfJointItem._on_value_changed
item_on_value_changed(w, i, col) ==
    LET value == IF w.rob[i].mimic /\ w.pm THEN MIMIC_INDEX ELSE w.mc[i].idx
    IN IF col = 1
       THEN Ret(w, <<Call("set_current_index", i, value, 0),
                     Call("set_target_type", i, value, 0),
                     Call("widget_on_value_changed", i, col, 0)>>)
       ELSE Ret(w, <<Call("widget_on_value_changed", i, col, 0)>>)

\* UrdfJointWidget._on_value_changed
widget_on_value_changed(w, src, col) ==
    IF w.bulk THEN Ret(w, <<Call("propagate", src, col, 1)>>) ELSE Ret(w, <<>>)

\* the loop run over every child of the list model instead of the selection
propagate_to_children(w, src, col, k) ==
    IF k > Len(w.kids) THEN Ret(w, <<>>)
    ELSE IF w.kids[k] = src THEN Ret(w, <<Call("propagate", src, col, k + 1)>>)
    ELSE Ret(w, <<Call("propagate_to", src, w.kids[k], col),
                  Call("propagate", src, col, k + 1)>>)

\* the loop `for item in self.list.selection`, from the k-th selected item on
propagate(w, src, col, k) ==
    IF k > Len(w.sel) THEN Ret(w, <<>>)
    ELSE IF w.sel[k] = src THEN Ret(w, <<Call("propagate", src, col, k + 1)>>)
    ELSE Ret(w, <<Call("propagate_to", src, w.sel[k], col),
                  Call("propagate", src, col, k + 1)>>)

\* the body of that loop without the test of the receiver's target type
propagate_to_any_target(w, src, item, col) ==
    IF col = 1
    THEN Ret(w, <<Call("set_item_value", item, 1, w.drive[src].target_type)>>)
    ELSE LET value == IF w.wmode = STIFFNESS THEN w.mc[src].val[col]
                      ELSE w.mc[src].val[col + 2]
         IN IF get_item_value(w, item, col) # value
            THEN Ret(w, <<Call("set_item_value", item, col, value)>>)
            ELSE Ret(w, <<>>)

\* the body of that loop with the receiver's callbacks run whether or not its value
\* changed
propagate_to_renotifying(w, src, item, col) ==
    Ret(w, <<Call("item_on_value_changed", item, col, 0)>>)

\* the body of that loop for one selected item
propagate_to(w, src, item, col) ==
    IF col = 1
    THEN Ret(w, <<Call("set_item_value", item, 1, w.drive[src].target_type)>>)
    ELSE LET value == IF w.wmode = STIFFNESS THEN w.mc[src].val[col]
                      ELSE w.mc[src].val[col + 2]
             target == get_value_as_string(w.mc[item])
         IN IF /\ target \in {"Position", "Velocity"}
               /\ ~(target = "Velocity" /\ col = 3)
               /\ get_item_value(w, item, col) # value
            THEN Ret(w, <<Call("set_item_value", item, col, value)>>)
            ELSE Ret(w, <<>>)

\* on_update_strength that leaves the drive record alone
on_update_strength_dropped(w, i) == Ret(w, <<>>)

\* on_update_strength
on_update_strength(w, i) ==
    Ret([w EXCEPT !.drive[i].strength = w.mc[i].val[2]], <<>>)

\* on_update_damping, and the assignment joint.drive.damping = self.damping
on_update_damping(w, i) ==
    Ret([w EXCEPT !.drive[i].damping = w.mc[i].val[3]], <<>>)

\* the last line of on_update_natural_frequency
store_natural_frequency(w, i) ==
    Ret([w EXCEPT !.drive[i].natural_frequency = w.mc[i].val[4]], <<>>)

\* the last line of on_update_damping_ratio
store_damping_ratio(w, i) ==
    Ret([w EXCEPT !.drive[i].damping_ratio = w.mc[i].val[5]], <<>>)

\* UrdfJointItem.on_update_natural_frequency
on_update_natural_frequency(w, i) ==
    IF w.drive[i].natural_frequency # w.mc[i].val[4]
    THEN Ret(w, <<Call("compute_drive_strength", i, 0, 0),
                  Call("store_natural_frequency", i, 0, 0)>>)
    ELSE Ret(w, <<Call("store_natural_frequency", i, 0, 0)>>)

\* on_update_damping_ratio without the damping assignment
on_update_damping_ratio_store_only(w, i) ==
    Ret(w, <<Call("store_damping_ratio", i, 0, 0)>>)

\* UrdfJointItem.on_update_damping_ratio
on_update_damping_ratio(w, i) ==
    Ret(w, <<Call("set_value", i, 3, DampingFormula(w, i)),
             Call("store_damping_ratio", i, 0, 0)>>)

\* the four config-update callbacks, by model column
on_update(w, i, c) ==
    IF c = 2 THEN on_update_strength(w, i)
    ELSE IF c = 3 THEN on_update_damping(w, i)
    ELSE IF c = 4 THEN on_update_natural_frequency(w, i)
    ELSE on_update_damping_ratio(w, i)

\* the damping part of compute_drive_strength without the test of the target type
compute_drive_damping_any_target(w, i) ==
    Ret(w, <<Call("set_value", i, 3, DampingFormula(w, i)),
             Call("on_update_damping", i, 0, 0)>>)

\* compute_drive_strength, the part under `if self.joint.drive.target_type == POSITION`
compute_drive_damping(w, i) ==
    IF w.drive[i].target_type = JOINT_DRIVE_POSITION
    THEN Ret(w, <<Call("set_value", i, 3, DampingFormula(w, i)),
                  Call("on_update_damping", i, 0, 0)>>)
    ELSE Ret(w, <<>>)

\* UrdfJointItem.compute_drive_strength
compute_drive_strength(w, i) ==
    LET strength == compute_natural_stiffness(w, i, w.mc[i].val[4])
    IN IF w.mc[i].val[2] = strength THEN Ret(w, <<>>)
       ELSE Ret(w, <<Call("set_value", i, 2, strength),
                     Call("compute_drive_damping", i, 0, 0),
                     Call("set_value", i, 2, strength)>>)

-----------------------------------------------------------------------------
(* Row building and the panel-wide operations *)

\* __on_target_change(item, item.value_field[1].model.get_value_as_string())
refresh_target(w, i) ==
    Ret(on_target_change(w, i, get_value_as_string(w.mc[i])), <<>>)

\* UrdfJointItemDelegate.update_mimic, from the k-th child on
update_mimic(w, k) ==
    IF k > Len(w.kids) THEN Ret(w, <<>>)
    ELSE LET i == w.kids[k]
         IN IF 1 \notin w.vf[i].has THEN Ret(w, <<Call("update_mimic", k + 1, 0, 0)>>)
            ELSE IF ~w.pm
            THEN Ret([w EXCEPT !.mc[i].nitems = Len(target_type), !.mc[i].defidx = 1],
                     <<Call("set_current_index", i, 1, 0),
                       Call("refresh_target", i, 0, 0),
                       Call("update_mimic", k + 1, 0, 0)>>)
            ELSE IF w.rob[i].mimic
            THEN Ret([w EXCEPT !.mc[i].nitems = Len(target_type_with_mimic),
                               !.mc[i].defidx = MIMIC_INDEX],
                     <<Call("set_current_index", i, MIMIC_INDEX, 0),
                       Call("refresh_target", i, 0, 0),
                       Call("update_mimic", k + 1, 0, 0)>>)
            ELSE Ret(w, <<Call("refresh_target", i, 0, 0),
                          Call("update_mimic", k + 1, 0, 0)>>)

\* UrdfJointItemDelegate.build_widget(model, item, index)
build_widget(w, i, index) ==
    LET drive_mode == w.mc[i].idx
        w0 == [w EXCEPT !.mc[i].mode = w.dmode]
        k == IF w0.dmode = STIFFNESS THEN index ELSE index + 2
        made == [has |-> w0.vf[i].has \cup {k}, en |-> w0.vf[i].en \cup {k},
                 vis |-> w0.vf[i].vis \cup {k}]
        shown == [made EXCEPT
                    !.vis = IF drive_mode # MIMIC_INDEX THEN @ ELSE @ \ {k},
                    !.en = IF (k = 2 /\ drive_mode \in {1, 2}) \/ (k = 3 /\ drive_mode = 1)
                           THEN @ ELSE @ \ {k}]
        w1 == IF index = 0 THEN w0
              ELSE IF index = 1
              THEN on_target_change(
                       [w0 EXCEPT !.vf[i] = [has |-> @.has \cup {1}, en |-> @.en \cup {1},
                                             vis |-> @.vis \cup {1}]],
                       i, get_value_as_string(w0.mc[i]))
              ELSE [w0 EXCEPT !.vf[i] = IF k \in {2, 3} THEN shown ELSE made]
    IN Ret(w1, <<Call("update_mimic", 1, 0, 0)>>)

\* the TreeView building every row, column by column; the frame is then drawn
build_rows(w, k, index) ==
    IF k > Len(w.kids) THEN Ret([w EXCEPT !.dirty = FALSE], <<>>)
    ELSE IF index > 3 THEN Ret(w, <<Call("build_rows", k + 1, 0, 0)>>)
    ELSE Ret(w, <<Call("build_widget", w.kids[k], index, 0),
                  Call("build_rows", k, index + 1, 0)>>)

\* UrdfJointItemDelegate.set_mode
delegate_set_mode(w, m) ==
    Ret([w EXCEPT !.dmode = m], <<Call("update_mimic", 1, 0, 0)>>)

\* UrdfJointListModel.set_mode
set_mode(w, m) ==
    IF w.lmode # m
    THEN Ret([w EXCEPT !.lmode = m,
                       !.mc = [i \in DOMAIN w.mc |-> [w.mc[i] EXCEPT !.mode = m]],
                       !.dirty = TRUE], <<>>)
    ELSE Ret(w, <<>>)

\* `self.mode = switch` in UrdfJointWidget.switch_mode
store_mode(w, m) == Ret([w EXCEPT !.wmode = m], <<>>)

\* switch_mode followed by a recomputation of every joint from its natural frequency
switch_mode_recomputing(w, m) ==
    Ret(w, <<Call("delegate_set_mode", m, 0, 0), Call("set_mode", m, 0, 0),
             Call("store_mode", m, 0, 0), Call("update_mimic", 1, 0, 0),
             Call("set_drive_type", w.wdt, 1, 0)>>)

\* UrdfJointWidget.switch_mode
switch_mode(w, m) ==
    Ret(w, <<Call("delegate_set_mode", m, 0, 0), Call("set_mode", m, 0, 0),
             Call("store_mode", m, 0, 0), Call("update_mimic", 1, 0, 0)>>)

\* set_drive_type applied to the selected children only
set_drive_type_selected(w, dt, k) ==
    IF k > Len(w.kids) THEN Ret([w EXCEPT !.dirty = TRUE], <<>>)
    ELSE IF \E n \in DOMAIN w.sel : w.sel[n] = w.kids[k]
    THEN Ret([w EXCEPT !.drive[w.kids[k]].drive_type = dt],
             <<Call("compute_drive_strength", w.kids[k], 0, 0),
               Call("set_drive_type", dt, k + 1, 0)>>)
    ELSE Ret(w, <<Call("set_drive_type", dt, k + 1, 0)>>)

\* UrdfJointListModel.set_drive_type, from the k-th child on
set_drive_type(w, dt, k) ==
    IF k > Len(w.kids) THEN Ret([w EXCEPT !.dirty = TRUE], <<>>)
    ELSE Ret([w EXCEPT !.drive[w.kids[k]].drive_type = dt],
             <<Call("compute_drive_strength", w.kids[k], 0, 0),
               Call("set_drive_type", dt, k + 1, 0)>>)

\* UrdfJointWidget.set_bulk_edit
set_bulk_edit(w, enable) == Ret([w EXCEPT !.bulk = enable], <<>>)

\* `self.drive_type = urdf_drive_type` in UrdfJointWidget.switch_drive_type
store_drive_type(w, dt) == Ret([w EXCEPT !.wdt = dt], <<>>)

\* switch_drive_type with bulk edit left on
switch_drive_type_bulk_on(w, dt) ==
    Ret(w, <<Call("set_drive_type", dt, 1, 0), Call("store_drive_type", dt, 0, 0)>>)

\* UrdfJointWidget.switch_drive_type
switch_drive_type(w, dt) ==
    Ret(w, <<Call("set_bulk_edit", FALSE, 0, 0), Call("set_drive_type", dt, 1, 0),
             Call("store_drive_type", dt, 0, 0), Call("set_bulk_edit", TRUE, 0, 0)>>)

\* UrdfJointItem.set_item_target_type
set_item_target_type(w, i, value) ==
    Ret(w, <<Call("set_current_index", i,
                  IF w.rob[i].mimic /\ w.pm THEN MIMIC_INDEX ELSE value, 0)>>)

\* UrdfOptionWidget._parse_mimic
option_parse_mimic(w, value, widget) ==
    IF widget THEN Ret([w EXCEPT !.pm = value], <<Call("update_mimic", 1, 0, 0)>>)
    ELSE Ret([w EXCEPT !.pm = value], <<>>)

\* one call
Exec(w, c) ==
    CASE c.op = "set_index" -> set_index(w, c.a, c.b)
      [] c.op = "set_current_index" -> set_current_index(w, c.a, c.b)
      [] c.op = "set_value" -> set_value(w, c.a, c.b, c.c)
      [] c.op = "set_item_value" -> set_item_value(w, c.a, c.b, c.c)
      [] c.op = "set_target_type" -> set_target_type(w, c.a, c.b)
      [] c.op = "item_on_value_changed" -> item_on_value_changed(w, c.a, c.b)
      [] c.op = "widget_on_value_changed" -> widget_on_value_changed(w, c.a, c.b)
      [] c.op = "propagate" -> propagate(w, c.a, c.b, c.c)
      [] c.op = "propagate_to" -> propagate_to(w, c.a, c.b, c.c)
      [] c.op = "on_update" -> on_update(w, c.a, c.b)
      [] c.op = "on_update_damping" -> on_update_damping(w, c.a)
      [] c.op = "store_natural_frequency" -> store_natural_frequency(w, c.a)
      [] c.op = "store_damping_ratio" -> store_damping_ratio(w, c.a)
      [] c.op = "compute_drive_strength" -> compute_drive_strength(w, c.a)
      [] c.op = "compute_drive_damping" -> compute_drive_damping(w, c.a)
      [] c.op = "refresh_target" -> refresh_target(w, c.a)
      [] c.op = "update_mimic" -> update_mimic(w, c.a)
      [] c.op = "build_widget" -> build_widget(w, c.a, c.b)
      [] c.op = "build_rows" -> build_rows(w, c.a, c.b)
      [] c.op = "delegate_set_mode" -> delegate_set_mode(w, c.a)
      [] c.op = "set_mode" -> set_mode(w, c.a)
      [] c.op = "store_mode" -> store_mode(w, c.a)
      [] c.op = "switch_mode" -> switch_mode(w, c.a)
      [] c.op = "set_drive_type" -> set_drive_type(w, c.a, c.b)
      [] c.op = "set_bulk_edit" -> set_bulk_edit(w, c.a)
      [] c.op = "store_drive_type" -> store_drive_type(w, c.a)
      [] c.op = "switch_drive_type" -> switch_drive_type(w, c.a)
      [] c.op = "set_item_target_type" -> set_item_target_type(w, c.a, c.b)
      [] c.op = "option_parse_mimic" -> option_parse_mimic(w, c.a, c.b)

\* every joint from the k-th on, fixed or not
EveryJointFrom(joints, k) == [n \in 1..(Len(joints) + 1 - k) |-> n + k - 1]

\* the first pending call is made: the calls it makes in turn come before the rest
Step(st) ==
    IF st.calls = <<>> THEN st
    ELSE LET r == Exec(st.w, Head(st.calls))
         IN [w |-> r.w, calls |-> r.calls \o Tail(st.calls)]

Step4(st) == Step(Step(Step(Step(st))))

Step16(st) == Step4(Step4(Step4(Step4(st))))

RECURSIVE RunCalls(_, _)
RECURSIVE NonFixedFrom(_, _)

\* the pending calls are made, sixteen at a time; n counts the calls still allowed
RunCalls(st, n) ==
    IF st.calls = <<>> THEN st.w
    ELSE IF n <= 0 THEN [st.w EXCEPT !.ovf = TRUE]
    ELSE RunCalls(Step16(st), n - 16)

Run(w, calls) == RunCalls([w |-> w, calls |-> calls], MaxCalls)

\* the comprehension in UrdfJointListModel.__init__: the non-fixed joints, in input order
NonFixedFrom(joints, k) ==
    IF k > Len(joints) THEN <<>>
    ELSE (IF joints[k].type \notin {JOINT_FIXED} THEN <<k>> ELSE <<>>)
         \o NonFixedFrom(joints, k + 1)

\* UrdfJointItem.__init__
new_item(j) ==
    [idx |-> get_item_target_type(j),
     nitems |-> IF j.mimic THEN Len(target_type_with_mimic) ELSE Len(target_type),
     defidx |-> get_item_target_type(j),
     val |-> (2 :> j.drive.strength @@ 3 :> j.drive.damping
              @@ 4 :> j.drive.natural_frequency @@ 5 :> j.drive.damping_ratio),
     mode |-> STIFFNESS]

\* UrdfJointWidget.__init__ on a freshly parsed robot
new_widget(joints, pm) ==
    LET kids == NonFixedFrom(joints, 1)
        rows == {kids[k] : k \in DOMAIN kids}
    IN [rob |-> joints,
        drive |-> [i \in DOMAIN joints |-> joints[i].drive],
        kids |-> kids,
        mc |-> [i \in rows |-> new_item(joints[i])],
        vf |-> [i \in rows |-> [has |-> {}, en |-> {}, vis |-> {}]],
        sel |-> <<>>, bulk |-> TRUE,
        wmode |-> STIFFNESS, lmode |-> STIFFNESS, dmode |-> STIFFNESS,
        wdt |-> ACCELERATION, pm |-> pm, dirty |-> TRUE, ovf |-> FALSE]

\* UrdfOptionWidget.build_joint_widget: the widget, then both radio collections set to 1,
\* whose value-changed callbacks (_switch_mode, _switch_drive_type) run only on a change
build_joint_widget(joints, pm, mode_radio, type_radio) ==
    Run(new_widget(joints, pm),
        (IF mode_radio # 1 THEN <<Call("switch_mode", NATURAL_FREQUENCY, 0, 0)>> ELSE <<>>)
        \o (IF type_radio # 1 THEN <<Call("switch_drive_type", FORCE, 0, 0)>> ELSE <<>>))

-----------------------------------------------------------------------------
(* Import configuration *)

\* ImportConfig.set_<field>(value): the native setter stores the value in the field
set_config(c, field, value) == [c EXCEPT ![field] = value]

\* the setter calls of reset_config without set_fix_base and set_density
ResetCallsShort ==
    << <<"merge_fixed_joints", TRUE>>,
       <<"replace_cylinders_with_capsules", FALSE>>,
       <<"convex_decomp", FALSE>>,
       <<"import_inertia_tensor", TRUE>>,
       <<"self_collision", FALSE>>,
       <<"distance_scale", Scale>>,
       <<"default_drive_type", JOINT_DRIVE_POSITION>>,
       <<"default_drive_strength", 1000 * Scale>>,
       <<"default_position_drive_damping", 100 * Scale>>,
       <<"up_vector", <<0, 0, 1>> >>,
       <<"make_default_prim", TRUE>>,
       <<"parse_mimic", TRUE>>,
       <<"create_physics_scene", TRUE>>,
       <<"collision_from_visuals", FALSE>> >>

\* the setter calls of UrdfImporter.reset_config, in order
ResetCalls ==
    << <<"merge_fixed_joints", TRUE>>,
       <<"replace_cylinders_with_capsules", FALSE>>,
       <<"convex_decomp", FALSE>>,
       <<"import_inertia_tensor", TRUE>>,
       <<"fix_base", TRUE>>,
       <<"self_collision", FALSE>>,
       <<"density", 0>>,
       <<"distance_scale", Scale>>,
       <<"default_drive_type", JOINT_DRIVE_POSITION>>,
       <<"default_drive_strength", 1000 * Scale>>,
       <<"default_position_drive_damping", 100 * Scale>>,
       <<"up_vector", <<0, 0, 1>> >>,
       <<"make_default_prim", TRUE>>,
       <<"parse_mimic", TRUE>>,
       <<"create_physics_scene", TRUE>>,
       <<"collision_from_visuals", FALSE>> >>

RECURSIVE set_all(_, _, _)
\* the setter calls from the k-th on, applied to c
set_all(c, calls, k) ==
    IF k > Len(calls) THEN c
    ELSE set_all(set_config(c, calls[k][1], calls[k][2]), calls, k + 1)

\* UrdfImporter.reset_config
reset_config(c) == set_all(c, ResetCalls, 1)

\* values typed into the "Default Density" field
DensityInputs == {0, Scale, 5 * Scale}

\* the checkboxes of the options panel whose click calls a setter with the new state
Checkboxes ==
    {"make_default_prim", "collision_from_visuals", "self_collision",
     "replace_cylinders_with_capsules"}

\* an ImportConfig as URDFCreateImportConfig returns it: the values the native
\* constructor gives are not in the sources, so any of these
NativeConfig(flag, number) ==
    [merge_fixed_joints |-> flag, replace_cylinders_with_capsules |-> flag,
     convex_decomp |-> flag, import_inertia_tensor |-> flag, fix_base |-> flag,
     self_collision |-> flag, density |-> number, distance_scale |-> number,
     default_drive_type |-> IF flag THEN JOINT_DRIVE_POSITION ELSE JOINT_DRIVE_NONE,
     default_drive_strength |-> number, default_position_drive_damping |-> number,
     up_vector |-> IF flag THEN <<0, 0, 1>> ELSE <<0, 1, 0>>,
     make_default_prim |-> flag, parse_mimic |-> flag, create_physics_scene |-> flag,
     collision_from_visuals |-> flag]

NativeConfigs == {NativeConfig(flag, number) : flag \in BOOLEAN, number \in {0, Scale}}

-----------------------------------------------------------------------------
(* Import commands and the stage *)

\* the stage the USD context holds after `epoch` calls of new_stage_async: no
\* references, no robot imported in memory
\* a path that is the empty string
NoPath == <<>>

\* the value the options panel gives self._models["dst_path"]
DefaultDst == <<"Same as Imported Model(Default)">>

\* the files a user can choose, split as directory, separator, base name, extension: two
\* robots, a URDF file that does not parse, and a file that is no URDF
SourcePaths ==
    {<<"urdf", "/", "arm", ".urdf">>, <<"urdf", "/", "gripper", ".urdf">>,
     <<"urdf", "/", "broken", ".urdf">>, <<"urdf", "/", "notes", ".txt">>}

\* the folders a user can choose as "USD Output"
DstFolders == {DefaultDst, <<"out">>}

\* "{base_path}/{basename}/{basename}.usd"
DestFile(base_path, basename) == <<base_path, "/", basename, "/", basename, ".usd">>

NewStage(epoch) == [epoch |-> epoch, refs |-> {}, robots |-> 0]

\* dest_path.replace("\\", "/") on a path given as its sequence of parts and separators
Normalize(path) == [k \in DOMAIN path |-> IF path[k] = "\\" THEN "/" ELSE path[k]]

\* the destination paths a caller passes: none, and two files, one also written with a
\* backslash
DestPaths ==
    {<<>>, <<"out", "/", "a.usd">>, <<"out", "\\", "a.usd">>, <<"out", "/", "b.usd">>}

\* Python's None as a return value, among paths
None == <<"None">>

\* one entry of call_log
Called(fn, path) == [fn |-> fn, path |-> path]

\* Usd.Stage.CreateNew and stage.Save whatever read_file returned
create_stage_file_always(io, dest) ==
    [io EXCEPT !.calls = @ \o <<Called("read_file", dest), Called("CreateNew", dest),
                                Called("Save", dest)>>,
               !.files = @ \cup {dest}]

\* omni.client.read_file(dest_path); Usd.Stage.CreateNew and stage.Save if the result
\* is not OK
create_stage_file(io, dest) ==
    IF dest \in io.files
    THEN [io EXCEPT !.calls = Append(@, Called("read_file", dest))]
    ELSE [io EXCEPT !.calls = @ \o <<Called("read_file", dest), Called("CreateNew", dest),
                                     Called("Save", dest)>>,
                    !.files = @ \cup {dest}]

\* _urdf.import_robot: with an empty destination the robot is put on the open stage,
\* otherwise it is written into the stage file at the destination
import_robot(io, dest) ==
    [io EXCEPT !.calls = Append(@, Called("import_robot", dest)),
               !.stage.robots = IF dest = <<>> THEN @ + 1 ELSE @]

\* the part of do() that URDFImportRobot and URDFParseAndImportFile share
import_to(io, dest_path) ==
    IF dest_path # <<>>
    THEN import_robot(create_stage_file(io, Normalize(dest_path)), Normalize(dest_path))
    ELSE import_robot(io, dest_path)

\* URDFImportRobot.do
URDFImportRobot(io, dest_path) == import_to([io EXCEPT !.calls = <<>>], dest_path)

\* URDFParseAndImportFile.do
URDFParseAndImportFile(io, dest_path) ==
    import_to([io EXCEPT !.calls = <<Called("URDFParseFile", <<>>)>>], dest_path)

\* a coroutine handed to asyncio.ensure_future and not yet run
new_task(kind, dest, epoch) ==
    [kind |-> kind, dest |-> dest, pc |-> "scheduled", scheduled_epoch |-> epoch,
     new_stage_frame |-> -1, added_frame |-> -1]

\* add_reference_to_stage
add_reference_to_stage(st, dest) == [st EXCEPT !.refs = @ \cup {dest}]

\* add_robot_to_stage: URDFImportRobot onto the open stage if the stage cache holds one
\* stage
add_robot_to_stage(io, one_stage) ==
    IF one_stage THEN URDFImportRobot(io, <<>>) ELSE io

\* the reference coroutine with add_reference_to_stage before the first await
import_without_waiting(io, t, now, one_stage) ==
    IF t.pc = "scheduled"
    THEN [io |-> [io EXCEPT !.stage = add_reference_to_stage(@, t.dest)],
          t |-> [t EXCEPT !.pc = "new_stage", !.added_frame = now]]
    ELSE IF t.pc = "new_stage"
    THEN [io |-> [io EXCEPT !.stage = NewStage(@.epoch + 1)],
          t |-> [t EXCEPT !.pc = "update_1", !.new_stage_frame = now]]
    ELSE [io |-> io, t |-> [t EXCEPT !.pc = IF @ = "update_1" THEN "update_2" ELSE "done"]]

\* import_with_clean_stage of the reference branch, from one await to the next:
\* new_stage_async, next_update_async, add_reference_to_stage, next_update_async
import_reference_with_clean_stage(io, t, now, one_stage) ==
    IF t.pc = "scheduled"
    THEN [io |-> io, t |-> [t EXCEPT !.pc = "new_stage"]]
    ELSE IF t.pc = "new_stage"
    THEN [io |-> [io EXCEPT !.stage = NewStage(@.epoch + 1)],
          t |-> [t EXCEPT !.pc = "update_1", !.new_stage_frame = now]]
    ELSE IF t.pc = "update_1"
    THEN [io |-> [io EXCEPT !.stage = add_reference_to_stage(@, t.dest)],
          t |-> [t EXCEPT !.pc = "update_2", !.added_frame = now]]
    ELSE [io |-> io, t |-> [t EXCEPT !.pc = "done"]]

\* import_with_clean_stage of the in-memory branch, from one await to the next: the
\* prims removed, next_update_async, add_robot_to_stage, next_update_async
import_robot_with_clean_stage(io, t, now, one_stage) ==
    IF t.pc = "scheduled"
    THEN [io |-> [io EXCEPT !.stage = NewStage(@.epoch)],
          t |-> [t EXCEPT !.pc = "update_1"]]
    ELSE IF t.pc = "update_1"
    THEN [io |-> add_robot_to_stage(io, one_stage),
          t |-> [t EXCEPT !.pc = "update_2", !.added_frame = now]]
    ELSE [io |-> io, t |-> [t EXCEPT !.pc = "done"]]

\* a coroutine run from the await it waits at to its next one
resume(io, t, now, one_stage) ==
    IF t.kind = "reference" THEN import_reference_with_clean_stage(io, t, now, one_stage)
    ELSE import_robot_with_clean_stage(io, t, now, one_stage)

RECURSIVE resume_all(_, _, _, _, _)
\* one application update: every coroutine waiting in next_update_async runs on, from
\* the k-th on
resume_all(io, ts, k, now, one_stage) ==
    IF k > Len(ts) THEN [io |-> io, ts |-> ts]
    ELSE IF ts[k].pc \in {"update_1", "update_2"}
    THEN LET r == resume(io, ts[k], now, one_stage)
         IN resume_all(r.io, [ts EXCEPT ![k] = r.t], k + 1, now, one_stage)
    ELSE resume_all(io, ts, k + 1, now, one_stage)

-----------------------------------------------------------------------------
(* Extension start-up *)

\* no object: None, or an attribute not yet assigned
NoObject == 0

\* the ext_id arguments; "None" is the default of UrdfImporter.__init__
ExtIds == {"None", "urdf-1", "urdf-2"}

\* the robot models another extension hands to update_robot_model
RobotModels == {"arm", "gripper"}

\* UrdfImporter.__init__: the k-th run of the body makes its own window, its own
\* import configuration and an empty robot model
UrdfImporter_init(ext_id, k) ==
    [ext_id |-> ext_id, window |-> TRUE, config |-> k, robot_model |-> "None"]

\* a Singleton that registers nothing
getinstance_unregistered(reg, class_, ext_id) ==
    LET heap == Append(reg.objects, UrdfImporter_init(ext_id, Len(reg.objects) + 1))
    IN  [instances |-> reg.instances, objects |-> heap, ref |-> Len(heap)]

\* Singleton.getinstance: class_(*args) at the first call, instances[class_] at every call
getinstance(reg, class_, ext_id) ==
    IF class_ \notin DOMAIN reg.instances
    THEN LET heap == Append(reg.objects, UrdfImporter_init(ext_id, Len(reg.objects) + 1))
         IN  [instances |-> (class_ :> Len(heap)) @@ reg.instances,
              objects |-> heap, ref |-> Len(heap)]
    ELSE [instances |-> reg.instances, objects |-> reg.objects,
          ref |-> reg.instances[class_]]

-----------------------------------------------------------------------------
(* State *)

World ==
    [rob |-> robot, drive |-> drive, kids |-> children, mc |-> model_cols,
     vf |-> value_field, sel |-> selection, bulk |-> enable_bulk_edit,
     wmode |-> mode, lmode |-> list_mode, dmode |-> delegate_mode, wdt |-> drive_type,
     pm |-> parse_mimic, dirty |-> dirty, ovf |-> overflow]

Commit(w) ==
    /\ robot' = w.rob
    /\ drive' = w.drive
    /\ children' = w.kids
    /\ model_cols' = w.mc
    /\ value_field' = w.vf
    /\ selection' = w.sel
    /\ enable_bulk_edit' = w.bulk
    /\ mode' = w.wmode
    /\ list_mode' = w.lmode
    /\ delegate_mode' = w.dmode
    /\ drive_type' = w.wdt
    /\ parse_mimic' = w.pm
    /\ dirty' = w.dirty
    /\ overflow' = w.ovf

Rows == {children[k] : k \in DOMAIN children}

\* the fields of the configuration kept in `config`
OtherFields(c) == [f \in DOMAIN c \ {"parse_mimic"} |-> c[f]]

\* UrdfImporter._config as one record
ImportConfig ==
    [f \in DOMAIN config \cup {"parse_mimic"} |->
        IF f = "parse_mimic" THEN parse_mimic ELSE config[f]]

Op(name, item, col) == [op |-> name, item |-> item, col |-> col]

\* UrdfImporter.__init__: reset_config, build_ui; no file chosen yet
Init ==
    /\ robot = <<>>
    /\ drive = <<>>
    /\ has_widget = FALSE
    /\ children = <<>>
    /\ model_cols = <<>>
    /\ value_field = <<>>
    /\ selection = <<>>
    /\ enable_bulk_edit = TRUE
    /\ mode = STIFFNESS
    /\ list_mode = STIFFNESS
    /\ delegate_mode = STIFFNESS
    /\ drive_type = ACCELERATION
    /\ edit_mode_radio = 0
    /\ drive_type_radio = 0
    /\ dirty = FALSE
    /\ overflow = FALSE
    /\ \E c \in NativeConfigs :
           /\ config = OtherFields(reset_config(c))
           /\ parse_mimic = reset_config(c).parse_mimic
    /\ files = {}
    /\ call_log = <<>>
    /\ stage = NewStage(0)
    /\ frame = 0
    /\ tasks = <<>>
    /\ returned = None
    /\ instances = <<>>
    /\ objects = <<>>
    /\ extension = [started |-> FALSE, window |-> NoObject, importer |-> NoObject]
    /\ handles = <<>>
    /\ models = [input_file |-> NoPath, dst_path |-> DefaultDst,
                 import_as_reference |-> TRUE, import_btn |-> FALSE, refresh_btn |-> FALSE]
    /\ robot_model = None
    /\ dialogs = <<>>
    /\ loads = <<>>
    /\ notified = 0
    /\ steps = 0
    /\ last = Op("init", 0, 0)

-----------------------------------------------------------------------------
(* Operations *)

\* the extension object and the singleton registry, left as they are
StartupUnchanged == UNCHANGED <<instances, objects, extension, handles>>

\* the source panel, the parsed robot model, the dialogs and the imports made, left as
\* they are
SourceUnchanged == UNCHANGED <<models, robot_model, dialogs, loads, notified>>

\* what neither the joint panel nor an import of a loaded robot touches
ExtensionUnchanged == StartupUnchanged /\ SourceUnchanged

\* the files, the stage and the coroutines, left as they are
ImportUnchanged ==
    /\ UNCHANGED <<files, call_log, stage, frame, tasks, returned>>
    /\ ExtensionUnchanged

\* the sequences without repetition over S: what a TreeView selection can be
Orderings(S) ==
    {s \in UNION {[1..n -> S] : n \in 0..Cardinality(S)} :
        \A a, b \in DOMAIN s : a # b => s[a] # s[b]}

\* the user can act on the rows only once the TreeView has drawn them
Drawn == has_widget /\ ~dirty

\* UrdfImporter.check_file_type_with_path with a URDF file that parses to `joints`:
\* _on_urdf_loaded -> UrdfOptionWidget.build_joint_widget
LoadRobot(joints) ==
    /\ ~dirty
    /\ Commit(build_joint_widget(joints, parse_mimic, edit_mode_radio, drive_type_radio))
    /\ has_widget' = TRUE
    /\ ImportUnchanged
    /\ UNCHANGED config
    /\ edit_mode_radio' = 1
    /\ drive_type_radio' = 1
    /\ steps < MaxSteps
    /\ steps' = steps + 1
    /\ last' = Op("load", 0, 0)

\* the next frame: the TreeView builds every row through the delegate
DrawFrame ==
    /\ has_widget /\ dirty
    /\ Commit(Run(World, <<Call("build_rows", 1, 0, 0)>>))
    /\ last' = Op("draw", 0, 0)
    /\ ImportUnchanged
    /\ UNCHANGED <<config, has_widget, edit_mode_radio, drive_type_radio, steps>>

\* the user changes the selection of the TreeView
Select(s) ==
    /\ Drawn
    /\ s # selection
    /\ selection' = s
    /\ last' = Op("select", 0, 0)
    /\ ImportUnchanged
    /\ UNCHANGED <<config, robot, drive, has_widget, children, model_cols, value_field,
                   enable_bulk_edit, mode, list_mode, delegate_mode, drive_type,
                   parse_mimic, edit_mode_radio, drive_type_radio, dirty, overflow>>
    /\ steps < MaxSteps
    /\ steps' = steps + 1

\* the user drags the value field k of row i to v: ResetableLabelField._update_value
\* sets the value model.  Only the fields of the displayed mode, enabled and visible,
\* take input
EditField(i, k, v) ==
    /\ Drawn
    /\ steps < MaxSteps
    /\ k \in value_field[i].has \cap value_field[i].en \cap value_field[i].vis
    /\ (k \in {2, 3}) <=> (delegate_mode = STIFFNESS)
    /\ v # model_cols[i].val[k]
    /\ Commit(Run(World, <<Call("set_value", i, k, v)>>))
    /\ steps' = steps + 1
    /\ last' = Op("edit", i, k)
    /\ ImportUnchanged
    /\ UNCHANGED <<config, has_widget, edit_mode_radio, drive_type_radio>>

\* the user picks entry t in the target combo box of row i
EditTarget(i, t) ==
    /\ Drawn
    /\ steps < MaxSteps
    /\ 1 \in value_field[i].has \cap value_field[i].en
    /\ t < model_cols[i].nitems
    /\ t # model_cols[i].idx
    /\ Commit(Run(World, <<Call("set_index", i, t, 0)>>))
    /\ steps' = steps + 1
    /\ last' = Op("target", i, 1)
    /\ ImportUnchanged
    /\ UNCHANGED <<config, has_widget, edit_mode_radio, drive_type_radio>>

\* UrdfJointItem.set_item_target_type(value)
SetItemTargetType(i, t) ==
    /\ Drawn
    /\ steps < MaxSteps
    /\ Commit(Run(World, <<Call("set_item_target_type", i, t, 0)>>))
    /\ steps' = steps + 1
    /\ last' = Op("set_item_target_type", i, 1)
    /\ ImportUnchanged
    /\ UNCHANGED <<config, has_widget, edit_mode_radio, drive_type_radio>>

\* the "Ignore Mimic" checkbox: UrdfOptionWidget._parse_mimic(not m)
ParseMimic(value) ==
    /\ ~dirty
    /\ value # parse_mimic
    /\ Commit(Run(World, <<Call("option_parse_mimic", value, has_widget, 0)>>))
    /\ last' = Op("parse_mimic", 0, 0)
    /\ ImportUnchanged
    /\ UNCHANGED <<config, has_widget, edit_mode_radio, drive_type_radio>>
    /\ steps < MaxSteps
    /\ steps' = steps + 1

\* a click in the "Joint Configuration" radio collection: UrdfOptionWidget._switch_mode
SwitchMode(m) ==
    /\ ~dirty
    /\ m # edit_mode_radio
    /\ edit_mode_radio' = m
    /\ IF has_widget
       THEN Commit(Run(World, <<Call("switch_mode",
                                     IF m = 0 THEN STIFFNESS ELSE NATURAL_FREQUENCY,
                                     0, 0)>>))
       ELSE Commit(World)
    /\ last' = Op("switch_mode", 0, 0)
    /\ ImportUnchanged
    /\ UNCHANGED <<config, has_widget, drive_type_radio>>
    /\ steps < MaxSteps
    /\ steps' = steps + 1

\* a click in the "Drive Type" radio collection: UrdfOptionWidget._switch_drive_type
SwitchDriveType(t) ==
    /\ ~dirty
    /\ t # drive_type_radio
    /\ drive_type_radio' = t
    /\ IF has_widget
       THEN Commit(Run(World, <<Call("switch_drive_type",
                                     IF t = 1 THEN FORCE ELSE ACCELERATION, 0, 0)>>))
       ELSE Commit(World)
    /\ last' = Op("switch_drive_type", 0, 0)
    /\ ImportUnchanged
    /\ UNCHANGED <<config, has_widget, edit_mode_radio>>
    /\ steps < MaxSteps
    /\ steps' = steps + 1

\* UrdfImporterDelegate.build_options(paths) with no supported path: reset_config, then
\* the options panel is built anew (both radio collections start at 0); the joint
\* widget of the robot loaded before stays
BuildOptions ==
    /\ ~dirty
    /\ Commit([World EXCEPT !.pm = reset_config(ImportConfig).parse_mimic])
    /\ config' = OtherFields(reset_config(ImportConfig))
    /\ edit_mode_radio' = 0
    /\ drive_type_radio' = 0
    /\ last' = Op("build_options", 0, 0)
    /\ ImportUnchanged
    /\ UNCHANGED has_widget
    /\ steps < MaxSteps
    /\ steps' = steps + 1

Next ==
    \/ \E joints \in Robots : LoadRobot(joints)
    \/ DrawFrame
    \/ \E s \in Orderings(Rows) : Select(s)
    \/ \E i \in Rows, k \in 2..5 : \E v \in FieldInputs(k) : EditField(i, k, v)
    \/ \E i \in Rows, t \in 0..3 : EditTarget(i, t)
    \/ \E i \in Rows, t \in 0..2 : SetItemTargetType(i, t)
    \/ \E value \in BOOLEAN : ParseMimic(value)
    \/ \E m \in 0..1 : SwitchMode(m)
    \/ \E t \in 0..1 : SwitchDriveType(t)
    \/ BuildOptions

Spec == Init /\ [][Next]_vars

\* the joint panel and the buttons of the options panel, left as they are
PanelUnchanged ==
    UNCHANGED <<robot, drive, has_widget, children, model_cols, value_field, selection,
                enable_bulk_edit, mode, list_mode, delegate_mode, drive_type,
                parse_mimic, edit_mode_radio, drive_type_radio, dirty, overflow>>

\* what every control of the options panel that writes the configuration leaves alone
ConfigEdited ==
    /\ last' = Op("set_config", 0, 0)
    /\ PanelUnchanged
    /\ ImportUnchanged
    /\ steps < MaxSteps
    /\ steps' = steps + 1

\* the "Default Density" field changes to v
SetDensity(v) ==
    /\ v # config.density
    /\ config' = set_config(config, "density", v)
    /\ ConfigEdited

\* a click in the "Moveable Base / Static Base" radio collection: _update_fix_base
UpdateFixBase(index) ==
    /\ (index = 1) # config.fix_base
    /\ config' = set_config(config, "fix_base", index = 1)
    /\ ConfigEdited

\* a click in the "Collider Type" radio collection: _update_convex_decomp
UpdateConvexDecomp(index) ==
    /\ (index = 1) # config.convex_decomp
    /\ config' = set_config(config, "convex_decomp", index = 1)
    /\ ConfigEdited

\* a click on one of the checkboxes that call a setter of the configuration
ClickCheckbox(field) ==
    /\ config' = set_config(config, field, ~config[field])
    /\ ConfigEdited

\* the options panel before a file is chosen: every control that writes the
\* configuration, and build_options
ConfigNext ==
    \/ \E v \in DensityInputs : SetDensity(v)
    \/ \E index \in 0..1 : UpdateFixBase(index)
    \/ \E index \in 0..1 : UpdateConvexDecomp(index)
    \/ \E field \in Checkboxes : ClickCheckbox(field)
    \/ \E value \in BOOLEAN : ParseMimic(value)
    \/ BuildOptions

ConfigSpec == Init /\ [][ConfigNext]_vars

\* the files, the call log and the stage as one record
IO == [files |-> files, calls |-> call_log, stage |-> stage]

CommitIO(io) ==
    /\ files' = io.files
    /\ call_log' = io.calls
    /\ stage' = io.stage

\* the destinations _load_robot computes: "{base_path}/{basename}/{basename}.usd"
OutPaths == {Normalize(path) : path \in DestPaths \ {<<>>}}

\* UrdfImporter._load_robot with a parsed robot: the reference branch runs
\* URDFImportRobot to dest_path and adds the reference, at once or in a coroutine; the
\* in-memory branch imports onto the open stage, at once or in a coroutine
load_robot(import_as_reference, clean_stage, dest_path, one_stage) ==
    /\ has_widget
    /\ clean_stage => Len(tasks) < MaxTasks
    /\ IF import_as_reference
       THEN /\ config' = set_config(config, "make_default_prim", TRUE)
            /\ IF clean_stage
               THEN /\ CommitIO(URDFImportRobot(IO, dest_path))
                    /\ tasks' = Append(tasks, new_task("reference", dest_path, stage.epoch))
               ELSE /\ CommitIO([URDFImportRobot(IO, dest_path) EXCEPT
                                    !.stage = add_reference_to_stage(@, dest_path)])
                    /\ tasks' = tasks
            /\ returned' = dest_path
       ELSE /\ config' = config
            /\ IF clean_stage
               THEN /\ CommitIO(IO)
                    /\ tasks' = Append(tasks, new_task("robot", <<>>, stage.epoch))
                    /\ returned' = None
               ELSE /\ CommitIO(add_robot_to_stage(IO, one_stage))
                    /\ tasks' = tasks
                    /\ returned' = IF one_stage THEN <<"root layer identifier">> ELSE None
    /\ frame' = frame
    /\ last' = Op("load_robot", 0, 0)
    /\ PanelUnchanged
    /\ ExtensionUnchanged
    /\ steps < MaxSteps
    /\ steps' = steps + 1

\* UrdfImporter._load_robot of the omni.importer.urdf extension: always a reference
\* import, and no return statement
omni_importer_load_robot(clean_stage, dest_path) ==
    /\ has_widget
    /\ clean_stage => Len(tasks) < MaxTasks
    /\ IF clean_stage
       THEN /\ CommitIO(URDFImportRobot(IO, dest_path))
            /\ tasks' = Append(tasks, new_task("reference", dest_path, stage.epoch))
       ELSE /\ CommitIO([URDFImportRobot(IO, dest_path) EXCEPT
                            !.stage = add_reference_to_stage(@, dest_path)])
            /\ tasks' = tasks
    /\ returned' = None
    /\ last' = Op("load_robot", 0, 0)
    /\ PanelUnchanged
    /\ ExtensionUnchanged
    /\ UNCHANGED <<config, frame>>
    /\ steps < MaxSteps
    /\ steps' = steps + 1

\* the event loop starts the oldest coroutine not yet run; it runs to its first await
StartTask(t, one_stage) ==
    /\ tasks[t].pc = "scheduled"
    /\ \A u \in 1..(t - 1) : tasks[u].pc # "scheduled"
    /\ CommitIO(resume(IO, tasks[t], frame, one_stage).io)
    /\ tasks' = [tasks EXCEPT ![t] = resume(IO, tasks[t], frame, one_stage).t]
    /\ last' = Op("task", t, 0)
    /\ PanelUnchanged
    /\ ExtensionUnchanged
    /\ UNCHANGED <<config, frame, returned, steps>>

\* new_stage_async of coroutine t completes; the coroutine runs to its next await
NewStageDone(t) ==
    /\ tasks[t].pc = "new_stage"
    /\ CommitIO(resume(IO, tasks[t], frame, TRUE).io)
    /\ tasks' = [tasks EXCEPT ![t] = resume(IO, tasks[t], frame, TRUE).t]
    /\ last' = Op("new_stage", t, 0)
    /\ PanelUnchanged
    /\ ExtensionUnchanged
    /\ UNCHANGED <<config, frame, returned, steps>>

\* one application update: the coroutines waiting in next_update_async run on
AppUpdate(one_stage) ==
    /\ frame < MaxFrames
    /\ frame' = frame + 1
    /\ CommitIO(resume_all(IO, tasks, 1, frame + 1, one_stage).io)
    /\ tasks' = resume_all(IO, tasks, 1, frame + 1, one_stage).ts
    /\ last' = Op("update", 0, 0)
    /\ PanelUnchanged
    /\ ExtensionUnchanged
    /\ UNCHANGED <<config, returned, steps>>

\* omni.kit.commands.execute("URDFParseAndImportFile", dest_path=dest_path)
ParseAndImportFile(dest_path) ==
    /\ CommitIO(URDFParseAndImportFile(IO, dest_path))
    /\ last' = Op("parse_and_import", 0, 0)
    /\ PanelUnchanged
    /\ ExtensionUnchanged
    /\ UNCHANGED <<config, frame, tasks, returned>>
    /\ steps < MaxSteps
    /\ steps' = steps + 1

\* a robot is loaded and imported, by the panel or by the command; the application
\* updates and the event loop runs the coroutines
ImportNext ==
    \/ \E joints \in Robots : LoadRobot(joints)
    \/ \E import_as_reference, clean_stage, one_stage \in BOOLEAN :
           \E dest_path \in OutPaths :
               load_robot(import_as_reference, clean_stage, dest_path, one_stage)
    \/ \E clean_stage \in BOOLEAN :
           \E dest_path \in OutPaths : omni_importer_load_robot(clean_stage, dest_path)
    \/ \E t \in DOMAIN tasks, one_stage \in BOOLEAN : StartTask(t, one_stage)
    \/ \E t \in DOMAIN tasks : NewStageDone(t)
    \/ \E one_stage \in BOOLEAN : AppUpdate(one_stage)
    \/ \E dest_path \in DestPaths : ParseAndImportFile(dest_path)

ImportSpec == Init /\ [][ImportNext]_vars

\* the registry and the heap as one record
Registry == [instances |-> instances, objects |-> objects]

\* everything but the extension objects, left as it is
StartupOnly ==
    /\ PanelUnchanged
    /\ SourceUnchanged
    /\ UNCHANGED <<config, files, call_log, stage, frame, tasks, returned>>
    /\ steps < MaxSteps
    /\ steps' = steps + 1

\* Extension.on_startup: window = UrdfImporter(ext_id), then the delegate, whose
\* constructor calls UrdfImporter(ext_id) again
OnStartup(ext_id) ==
    /\ ~extension.started
    /\ LET first == getinstance(Registry, "UrdfImporter", ext_id)
           second == getinstance(first, "UrdfImporter", ext_id)
       IN  /\ instances' = second.instances
           /\ objects' = second.objects
           /\ extension' = [started |-> TRUE, window |-> first.ref, importer |-> second.ref]
           /\ handles' = handles \o <<[arg |-> ext_id, ref |-> first.ref],
                                      [arg |-> ext_id, ref |-> second.ref]>>
    /\ last' = Op("on_startup", 0, 0)
    /\ StartupOnly

\* Extension.on_shutdown: window.on_shutdown() drops the omni.ui window,
\* _delegate.destroy() drops the delegate's importer
OnShutdown ==
    /\ extension.started
    /\ objects' = [objects EXCEPT ![extension.window].window = FALSE]
    /\ extension' = [extension EXCEPT !.started = FALSE, !.importer = NoObject]
    /\ last' = Op("on_shutdown", 0, 0)
    /\ UNCHANGED <<instances, handles>>
    /\ StartupOnly

\* UrdfImporter(ext_id) called by any other code of the application
GetImporter(ext_id) ==
    /\ LET got == getinstance(Registry, "UrdfImporter", ext_id)
       IN  /\ instances' = got.instances
           /\ objects' = got.objects
           /\ handles' = Append(handles, [arg |-> ext_id, ref |-> got.ref])
    /\ last' = Op("get_importer", 0, 0)
    /\ UNCHANGED extension
    /\ StartupOnly

\* UrdfImporter.update_robot_model(robot_model) through the extension's window
UpdateRobotModel(new_model) ==
    /\ extension.window # NoObject
    /\ objects' = [objects EXCEPT ![extension.window].robot_model = new_model]
    /\ last' = Op("update_robot_model", 0, 0)
    /\ UNCHANGED <<instances, extension, handles>>
    /\ StartupOnly

\* the extension is enabled and disabled, and UrdfImporter(...) is called, in any order
StartupNext ==
    \/ \E ext_id \in ExtIds : OnStartup(ext_id)
    \/ OnShutdown
    \/ \E ext_id \in ExtIds : GetImporter(ext_id)
    \/ \E new_model \in RobotModels : UpdateRobotModel(new_model)

StartupSpec == Init /\ [][StartupNext]_vars

-----------------------------------------------------------------------------
(* The source panel, start_import and the importer delegate *)

\* is_urdf_file: the path is a file with the extension .urdf
is_urdf_file(path) == path # NoPath /\ path[4] = ".urdf"

\* omni.kit.commands.execute("URDFParseFile", urdf_path = path): (True, robot), or
\* (False, None) when the command fails; a robot model is named by the file it was
\* parsed from
parse_file(path) ==
    IF path[3] = "broken" THEN [result |-> FALSE, robot |-> None]
    ELSE [result |-> TRUE, robot |-> path]

\* robot_model.joints.values()
JointsOf(rm) == IF rm[3] = "arm" THEN RobotArm ELSE RobotGripper

\* build_joint_widget for the robots of SourcePaths, computed once for every value of
\* parse_mimic and of the two radio collections
BuiltWidgets ==
    [joints \in {RobotArm, RobotGripper}, pm \in BOOLEAN, mode_radio \in 0..1,
     type_radio \in 0..1 |-> build_joint_widget(joints, pm, mode_radio, type_radio)]

\* check_file_type_with_path on the models ms, the robot model rm and the panel w0,
\* with the two radio collections at mode_radio and type_radio
check_file_type_with_path(path, ms, rm, w0, mode_radio, type_radio) ==
    IF path = NoPath \/ ~is_urdf_file(path)
    THEN [models |-> ms, robot_model |-> rm, loaded |-> FALSE, world |-> w0]
    ELSE LET parsed == parse_file(path)
             ms1 == [ms EXCEPT !.refresh_btn = TRUE]
         IN IF parsed.result
            THEN [models |-> [ms1 EXCEPT !.import_btn = TRUE],
                  robot_model |-> parsed.robot, loaded |-> TRUE,
                  world |-> BuiltWidgets[JointsOf(parsed.robot), w0.pm,
                                         mode_radio, type_radio]]
            ELSE [models |-> ms1, robot_model |-> parsed.robot, loaded |-> FALSE,
                  world |-> w0]

\* the fields of the importer an import reads and writes, as one record
Session ==
    [io |-> IO, robot_model |-> robot_model, dialogs |-> dialogs, loads |-> loads,
     make_default_prim |-> config.make_default_prim, returned |-> returned]

CommitSession(s) ==
    /\ CommitIO(s.io)
    /\ robot_model' = s.robot_model
    /\ dialogs' = s.dialogs
    /\ loads' = s.loads
    /\ config' = set_config(config, "make_default_prim", s.make_default_prim)
    /\ returned' = s.returned

\* where a start_import call comes from (the Import button, or convert_assets with
\* so many paths) and the dialogs it was confirmed in
Flow(origin, count) == [origin |-> origin, count |-> count, yes |-> {}]

\* a modal window with the values its callback has captured
Dialog(kind, path, dest, flow) == [kind |-> kind, path |-> path, dest |-> dest, flow |-> flow]

\* _load_robot(dst_path, path) with "Clear Stage on Import" unchecked
load_robot_call(s, dst_path, path_arg, flow, one_stage) ==
    LET path == IF path_arg = NoPath THEN models.input_file ELSE path_arg
        rm == IF path_arg # NoPath /\ s.robot_model = None /\ is_urdf_file(path_arg)
              THEN parse_file(path_arg).robot
              ELSE s.robot_model
        s1 == [s EXCEPT !.robot_model = rm]
        made == [path |-> path, robot |-> rm, dest |-> dst_path,
                 reference |-> models.import_as_reference,
                 existed |-> dst_path \in s.io.files,
                 default_dst |-> models.dst_path = DefaultDst, flow |-> flow]
    IN IF rm = None THEN [s1 EXCEPT !.returned = None]
       ELSE IF models.import_as_reference
       THEN [s1 EXCEPT !.io = [URDFImportRobot(@, dst_path) EXCEPT
                                  !.stage = add_reference_to_stage(@, dst_path)],
                       !.make_default_prim = TRUE,
                       !.loads = Append(@, made),
                       !.returned = dst_path]
       ELSE IF one_stage
       THEN [s1 EXCEPT !.io = add_robot_to_stage(@, one_stage),
                       !.loads = Append(@, made),
                       !.returned = <<"root layer identifier">>]
       ELSE [s1 EXCEPT !.returned = None]

\* start_import that never looks for the destination file
start_import_branch_without_stat(fs, rm, checked, path) ==
    LET base_path == IF path # NoPath THEN path[1] ELSE ""
        basename == IF path # NoPath THEN path[3] ELSE rm[3]
    IN IF models.import_as_reference
       THEN [kind |-> "load",
             dest |-> DestFile(IF models.dst_path # DefaultDst THEN models.dst_path[1]
                               ELSE base_path, basename)]
       ELSE [kind |-> "load", dest |-> models.dst_path]

\* the branches of start_import: which window it opens, or the destination it hands to
\* _load_robot; fs are the files omni.client.stat finds
start_import_branch(fs, rm, checked, path) ==
    LET base_path == IF path # NoPath THEN path[1] ELSE ""
        basename == IF path # NoPath THEN path[3] ELSE rm[3]
        dest == DestFile(IF models.dst_path # DefaultDst THEN models.dst_path[1]
                         ELSE base_path, basename)
    IN IF models.import_as_reference /\ models.dst_path = DefaultDst /\ base_path = ""
       THEN [kind |-> "URDF Needs a destination Path", dest |-> NoPath]
       ELSE IF models.import_as_reference /\ ~checked /\ models.dst_path = DefaultDst
       THEN [kind |-> "URDF Confirm Path", dest |-> NoPath]
       ELSE IF models.import_as_reference
       THEN IF dest \in fs THEN [kind |-> "URDF Confirm Overwrite", dest |-> dest]
            ELSE [kind |-> "load", dest |-> dest]
       ELSE [kind |-> "load", dest |-> models.dst_path]

\* start_import(checked, path); its first line reads self._robot_model.name and raises
\* when there is no robot model
start_import(s, checked, path_arg, flow, one_stage) ==
    IF s.robot_model = None THEN s
    ELSE LET path == IF path_arg = None THEN models.input_file ELSE path_arg
             branch == start_import_branch(s.io.files, s.robot_model, checked, path)
         IN IF branch.kind = "load"
            THEN load_robot_call(s, branch.dest, path, flow, one_stage)
            ELSE [s EXCEPT !.dialogs = Append(@, Dialog(branch.kind, path, branch.dest, flow))]

RECURSIVE start_imports(_, _, _, _)
\* the loop of convert_assets: start_import(path = path) for every path, from the k-th on
start_imports(s, paths, k, one_stage) ==
    IF k > Len(paths) THEN s
    ELSE start_imports(start_import(s, FALSE, paths[k], Flow("convert_assets", Len(paths)), one_stage),
                       paths, k + 1, one_stage)

\* the first path of paths that is_supported_format accepts, if any
FirstSupported(paths) ==
    LET supported == {k \in DOMAIN paths : paths[k][4] = ".urdf"}
    IN IF supported = {} THEN NoPath
       ELSE paths[CHOOSE k \in supported : \A j \in supported : k <= j]

\* the path lists the asset importer hands to the delegate
PathLists ==
    {<<>>, <<<<"urdf", "/", "arm", ".urdf">>>>,
     <<<<"urdf", "/", "arm", ".urdf">>, <<"urdf", "/", "gripper", ".urdf">>>>,
     <<<<"urdf", "/", "gripper", ".urdf">>, <<"urdf", "/", "arm", ".urdf">>>>,
     <<<<"urdf", "/", "broken", ".urdf">>>>}

\* seq without its k-th element
RemoveAt(seq, k) == SubSeq(seq, 1, k - 1) \o SubSeq(seq, k + 1, Len(seq))

\* what the controls of the source panel leave alone
SourceEdited ==
    /\ UNCHANGED <<config, files, call_log, stage, frame, tasks, returned,
                   dialogs, loads, notified>>
    /\ StartupUnchanged
    /\ steps < MaxSteps
    /\ steps' = steps + 1

\* the "Input File" field changes to path, or Refresh is clicked: check_file_type
CheckFileType(path) ==
    /\ dialogs = <<>>
    /\ path # models.input_file \/ models.refresh_btn
    /\ LET r == check_file_type_with_path(path, [models EXCEPT !.input_file = path],
                                          robot_model, World, edit_mode_radio,
                                          drive_type_radio)
       IN  /\ models' = r.models
           /\ robot_model' = r.robot_model
           /\ Commit(r.world)
           /\ has_widget' = (has_widget \/ r.loaded)
           /\ edit_mode_radio' = IF r.loaded THEN 1 ELSE edit_mode_radio
           /\ drive_type_radio' = IF r.loaded THEN 1 ELSE drive_type_radio
    /\ last' = Op("check_file_type", 0, 0)
    /\ SourceEdited

\* the user picks a folder as "USD Output"
SetDstPath(folder) ==
    /\ dialogs = <<>>
    /\ folder # models.dst_path
    /\ models' = [models EXCEPT !.dst_path = folder]
    /\ last' = Op("set_dst_path", 0, 0)
    /\ UNCHANGED robot_model
    /\ PanelUnchanged
    /\ SourceEdited

\* a click in the "Create in Stage / Referenced Model" radio collection:
\* _update_import_option
UpdateImportOption(index) ==
    /\ dialogs = <<>>
    /\ (index = 1) # models.import_as_reference
    /\ models' = [models EXCEPT !.import_as_reference = (index = 1)]
    /\ last' = Op("update_import_option", 0, 0)
    /\ UNCHANGED robot_model
    /\ PanelUnchanged
    /\ SourceEdited

\* what a run of start_import or of one of its callbacks leaves alone
Imported(s) ==
    /\ CommitSession(s)
    /\ UNCHANGED <<models, frame, tasks>>
    /\ PanelUnchanged
    /\ StartupUnchanged

\* a click on the Import button: start_import()
ClickImport(one_stage) ==
    /\ dialogs = <<>>
    /\ models.import_btn
    /\ Imported(start_import(Session, FALSE, None, Flow("button", 0), one_stage))
    /\ last' = Op("start_import", 0, 0)
    /\ UNCHANGED notified
    /\ steps < MaxSteps
    /\ steps' = steps + 1

\* "Yes" in the k-th open window: check_callback(True) or overwrite_callback(True), and
\* the window is hidden
DialogYes(k, one_stage) ==
    /\ dialogs[k].kind \in {"URDF Confirm Path", "URDF Confirm Overwrite"}
    /\ LET d == dialogs[k]
           flow == [d.flow EXCEPT !.yes = @ \cup {d.kind}]
           s == IF d.kind = "URDF Confirm Path"
                THEN start_import(Session, TRUE, d.path, flow, one_stage)
                ELSE load_robot_call(Session, d.dest, d.path, flow, one_stage)
       IN  Imported([s EXCEPT !.dialogs = RemoveAt(@, k)])
    /\ last' = Op("dialog_yes", k, 0)
    /\ UNCHANGED <<notified, steps>>

\* "No" in the k-th open window, or "OK" in the window that has no other button: the
\* window is hidden
DialogNo(k) ==
    /\ Imported([Session EXCEPT !.dialogs = RemoveAt(@, k)])
    /\ last' = Op("dialog_no", k, 0)
    /\ UNCHANGED <<notified, steps>>

\* UrdfImporterDelegate.build_options(paths): reset_config, the options panel built
\* anew, and check_file_type_with_path for the first supported path
BuildOptionsFor(paths) ==
    /\ dialogs = <<>>
    /\ LET r == check_file_type_with_path(
                    FirstSupported(paths),
                    [models EXCEPT !.dst_path = DefaultDst, !.import_as_reference = TRUE],
                    robot_model,
                    [World EXCEPT !.pm = reset_config(ImportConfig).parse_mimic], 0, 0)
       IN  /\ models' = r.models
           /\ robot_model' = r.robot_model
           /\ Commit(r.world)
           /\ has_widget' = (has_widget \/ r.loaded)
           /\ edit_mode_radio' = IF r.loaded THEN 1 ELSE 0
           /\ drive_type_radio' = IF r.loaded THEN 1 ELSE 0
    /\ config' = OtherFields(reset_config(ImportConfig))
    /\ last' = Op("build_options", 0, 0)
    /\ UNCHANGED <<files, call_log, stage, frame, tasks, returned, dialogs, loads, notified>>
    /\ StartupUnchanged
    /\ steps < MaxSteps
    /\ steps' = steps + 1

\* UrdfImporterDelegate.convert_assets(paths)
ConvertAssets(paths, one_stage) ==
    /\ dialogs = <<>>
    /\ IF paths = <<>>
       THEN /\ notified' = notified + 1
            /\ Imported(Session)
       ELSE /\ notified' = notified
            /\ Imported(start_imports(Session, paths, 1, one_stage))
    /\ last' = Op("convert_assets", Len(paths), 0)
    /\ steps < MaxSteps
    /\ steps' = steps + 1

\* files are chosen in the source panel or handed over by the asset importer, the
\* destination and the import option are set, and imports are started and confirmed
StartImportNext ==
    \/ \E path \in SourcePaths : CheckFileType(path)
    \/ \E folder \in DstFolders : SetDstPath(folder)
    \/ \E index \in 0..1 : UpdateImportOption(index)
    \/ \E one_stage \in BOOLEAN : ClickImport(one_stage)
    \/ \E k \in DOMAIN dialogs, one_stage \in BOOLEAN : DialogYes(k, one_stage)
    \/ \E k \in DOMAIN dialogs : DialogNo(k)
    \/ \E paths \in PathLists : BuildOptionsFor(paths)
    \/ \E paths \in PathLists, one_stage \in BOOLEAN : ConvertAssets(paths, one_stage)

StartImportSpec == Init /\ [][StartImportNext]_vars

NoOverflow == ~overflow

-----------------------------------------------------------------------------
(* Properties *)

Selected == {selection[k] : k \in DOMAIN selection}

\* the entry the target combo box of row i shows
TargetOf(i) == get_value_as_string(model_cols[i])

\* the value fields of row i that exist
ValueFields(i) == value_field[i].has \cap {2, 3, 4, 5}

\* the joints of the robot that are not fixed
NonFixed == {i \in DOMAIN robot : robot[i].type # JOINT_FIXED}

\* C1: once an edit of a value field has settled, the edited joint has
\* strength = m_eq * natural_frequency^2 and
\* damping = 2 * m_eq * natural_frequency * damping_ratio
C1_ViewsConsistent ==
    last.op = "edit" =>
        /\ model_cols[last.item].val[2]
               = compute_natural_stiffness(World, last.item, model_cols[last.item].val[4])
        /\ model_cols[last.item].val[3] = DampingFormula(World, last.item)

\* C2: after a direct edit of a target combo or a call of set_item_target_type, and the
\* propagation either starts, the joint it was made on and every selected joint show
\* Mimic if they are mimic joints and parse_mimic is true
C2_MimicStaysMimic ==
    last.op \in {"target", "set_item_target_type"} =>
        \A i \in Selected \cup {last.item} :
            robot[i].mimic /\ parse_mimic => model_cols[i].idx = MIMIC_INDEX

\* C3: turning parse_mimic off makes a mimic joint show the target type stored in its
\* drive record, turning it on makes it show Mimic, and neither changes the stored type
C3_ToggleKeepsStoredTarget ==
    [][last'.op = "parse_mimic" =>
          \A i \in Rows :
              robot[i].mimic /\ 1 \in value_field[i].has =>
                  /\ drive'[i].target_type = drive[i].target_type
                  /\ model_cols'[i].idx = IF parse_mimic' THEN MIMIC_INDEX
                                          ELSE drive[i].target_type]_vars

\* C4: a switch of the drive type leaves the natural frequency and the damping ratio of
\* every joint as they were, in the value models and in the drive records
C4_DriveTypeKeepsFrequency ==
    [][last'.op = "switch_drive_type" =>
          \A i \in Rows :
              /\ model_cols'[i].val[4] = model_cols[i].val[4]
              /\ model_cols'[i].val[5] = model_cols[i].val[5]
              /\ drive'[i].natural_frequency = drive[i].natural_frequency
              /\ drive'[i].damping_ratio = drive[i].damping_ratio]_vars

\* a drive type switch back to Acceleration, in Natural Frequency mode, with two joints
\* of different natural frequency selected, one of them with inertia other than 1
C4_Witness ==
    /\ last.op = "switch_drive_type"
    /\ mode = NATURAL_FREQUENCY
    /\ drive_type = ACCELERATION
    /\ \E i, j \in Selected :
           /\ i # j
           /\ robot[i].inertia # Scale
           /\ drive[i].drive_type = ACCELERATION
           /\ drive[i].strength
                  = compute_natural_stiffness(World, i, model_cols[i].val[4])
           /\ model_cols[i].val[4] # model_cols[j].val[4]

\* C5: an edit of a value field changes no value of another joint that shows None or
\* Mimic, and neither the damping nor the damping ratio of another joint that shows
\* Velocity
C5_PropagationSkipsDisabled ==
    [][last'.op = "edit" =>
          \A i \in Rows \ {last'.item} :
              /\ TargetOf(i) \in {"None", "Mimic"} =>
                     model_cols'[i] = model_cols[i] /\ drive'[i] = drive[i]
              /\ TargetOf(i) = "Velocity" =>
                     /\ model_cols'[i].val[3] = model_cols[i].val[3]
                     /\ model_cols'[i].val[5] = model_cols[i].val[5]
                     /\ drive'[i].damping = drive[i].damping
                     /\ drive'[i].damping_ratio = drive[i].damping_ratio]_vars

\* a damping-ratio edit on a selected joint while a Velocity joint is selected too, whose
\* damping ratio stays different from the edited one
C5_Witness ==
    /\ last.op = "edit"
    /\ last.col = 5
    /\ last.item \in Selected
    /\ \E i \in Selected \ {last.item} :
           /\ TargetOf(i) = "Velocity"
           /\ model_cols[i].val[5] # model_cols[last.item].val[5]

\* C6: the list model holds the non-fixed joints of the robot, each once, in input order
C6_OneEntryPerNonFixedJoint ==
    has_widget =>
        /\ Len(children) = Cardinality(NonFixed)
        /\ \A k \in DOMAIN children : children[k] \in NonFixed
        /\ \A k, n \in DOMAIN children : k < n => children[k] < children[n]
        /\ DOMAIN model_cols = Rows

\* a robot with a fixed joint between or before its two movable joints
C6_Witness ==
    /\ has_widget
    /\ last.op = "load"
    /\ Len(children) < Len(robot)
    /\ Len(children) > 1

C8_NoneDisablesAll ==
    Drawn =>
        \A i \in Rows :
            TargetOf(i) = "None" => ValueFields(i) \cap value_field[i].en = {}

\* C9: a drawn row of a mimic joint that shows Mimic while parse_mimic is true has none
\* of its value fields enabled
C9_MimicDisablesAll ==
    Drawn =>
        \A i \in Rows :
            robot[i].mimic /\ parse_mimic /\ TargetOf(i) = "Mimic" =>
                ValueFields(i) \cap value_field[i].en = {}

\* C10: a row that shows Position has every value field enabled; a row that shows
\* Velocity has strength and natural frequency enabled, damping and damping ratio
\* disabled
C10_PositionVelocityEnablement ==
    \A i \in Rows :
        1 \in value_field[i].has =>
            /\ TargetOf(i) = "Position" => ValueFields(i) \subseteq value_field[i].en
            /\ TargetOf(i) = "Velocity" =>
                   /\ ValueFields(i) \cap {2, 4} \subseteq value_field[i].en
                   /\ value_field[i].en \cap {3, 5} = {}

\* a target combo changed to Velocity on a row that has been drawn in both edit modes,
\* and one changed to Position likewise
C10_Witness ==
    /\ last.op = "target"
    /\ ValueFields(last.item) = {2, 3, 4, 5}
    /\ TargetOf(last.item) = "Velocity"
    /\ value_field[last.item].en = {1, 2, 4}

C12_OnlySelectionReceives ==
    [][last'.op \in {"edit", "target", "set_item_target_type"} =>
          \A i \in Rows \ (Selected \cup {last'.item}) :
              /\ model_cols'[i] = model_cols[i]
              /\ drive'[i] = drive[i]
              /\ value_field'[i] = value_field[i]]_vars

\* a value edit that reached a selected joint but not a third Position joint, which is
\* outside the selection and still holds another value in that field
C12_Witness ==
    /\ last.op = "edit"
    /\ \E i \in Selected \ {last.item} :
           model_cols[i].val[last.col] = model_cols[last.item].val[last.col]
    /\ \E i \in Rows \ (Selected \cup {last.item}) :
           /\ TargetOf(i) = "Position"
           /\ model_cols[i].val[last.col] # model_cols[last.item].val[last.col]

\* the value field k of row i takes the input v (the guards of EditField)
CanEditField(i, k, v) ==
    /\ Drawn
    /\ k \in value_field[i].has \cap value_field[i].en \cap value_field[i].vis
    /\ (k \in {2, 3}) <=> (delegate_mode = STIFFNESS)
    /\ v # model_cols[i].val[k]

\* the value models and drive records of all joints once the edit of field k of row i
\* to v has settled, had the TreeView handed out the selection in the order s
AfterEdit(s, i, k, v) ==
    LET w == Run([World EXCEPT !.sel = s], <<Call("set_value", i, k, v)>>)
    IN <<w.mc, w.drive>>

\* C13: for every edit of a value field and every set of selected joints, the joints end
\* in the same state whatever the order in which the selection is iterated
C13_SelectionOrderIrrelevant ==
    \A i \in Rows, k \in {2, 3, 4, 5} :
        \A v \in FieldInputs(k) :
            CanEditField(i, k, v) =>
                \A s \in Orderings(Selected) :
                    Len(s) = Len(selection) =>
                        AfterEdit(s, i, k, v) = AfterEdit(selection, i, k, v)

\* C14: an edit of the damping ratio of a joint to r leaves r in the value model and in
\* the drive record, sets the damping to 2 * m_eq * natural_frequency * r in both, and
\* leaves the strength and the natural frequency of the joint as they were
C14_RatioEditRecomputesDamping ==
    [][\A i \in Rows : \A r \in RatioInputs :
          last'.op = "edit" /\ last'.item = i /\ last'.col = 5 /\ EditField(i, 5, r) =>
              /\ model_cols'[i].val[5] = r
              /\ drive'[i].damping_ratio = r
              /\ model_cols'[i].val[3] = DampingFormula(World', i)
              /\ drive'[i].damping = DampingFormula(World', i)
              /\ model_cols'[i].val[2] = model_cols[i].val[2]
              /\ model_cols'[i].val[4] = model_cols[i].val[4]
              /\ drive'[i].strength = drive[i].strength
              /\ drive'[i].natural_frequency = drive[i].natural_frequency]_vars

\* damping ratio 0.5 typed for a joint of inertia 2.0 and natural frequency 1.0 under a
\* Force drive: damping 2.0
C14_Witness ==
    /\ last.op = "edit"
    /\ last.col = 5
    /\ drive[last.item].drive_type = FORCE
    /\ robot[last.item].inertia = 2 * Scale
    /\ model_cols[last.item].val[4] = Scale
    /\ model_cols[last.item].val[5] = Scale \div 2
    /\ model_cols[last.item].val[3] = 2 * Scale
    /\ drive[last.item].damping = 2 * Scale
    /\ drive[last.item].damping_ratio = Scale \div 2

\* C15: from the creation of its item on, a joint that has no mimic joint, and any joint
\* while parse_mimic is false, shows the target type stored in its drive record, which
\* is None, Position or Velocity and never Mimic
C15_ShowsStoredTarget ==
    has_widget =>
        \A i \in Rows :
            ~robot[i].mimic \/ ~parse_mimic =>
                /\ model_cols[i].idx = drive[i].target_type
                /\ model_cols[i].idx
                       \in {JOINT_DRIVE_NONE, JOINT_DRIVE_POSITION, JOINT_DRIVE_VELOCITY}

\* the widget after switch_mode(m) and the frame that redraws the rows
SwitchedTo(w, m) ==
    LET w1 == Run(w, <<Call("switch_mode", m, 0, 0)>>)
    IN IF w1.dirty THEN Run(w1, <<Call("build_rows", 1, 0, 0)>>) ELSE w1

\* Stiffness -> Natural Frequency -> Stiffness from the current state, no edit in between
ModeRoundTrip == SwitchedTo(SwitchedTo(World, NATURAL_FREQUENCY), STIFFNESS)

\* C16: switching from Stiffness to Natural Frequency and back to Stiffness, with no edit
\* in between, leaves the strength and the damping of every joint as they were, in the
\* value models and in the drive records
C16_ModeRoundTripKeepsValues ==
    Drawn /\ mode = STIFFNESS =>
        LET back == ModeRoundTrip
        IN \A i \in Rows :
               /\ back.mc[i].val[2] = model_cols[i].val[2]
               /\ back.mc[i].val[3] = model_cols[i].val[3]
               /\ back.drive[i].strength = drive[i].strength
               /\ back.drive[i].damping = drive[i].damping

\* a drawn widget in Stiffness mode with a joint whose strength is not the one its
\* natural frequency gives; the first switch enters Natural Frequency, the second returns
C16_Witness ==
    /\ Drawn
    /\ mode = STIFFNESS
    /\ SwitchedTo(World, NATURAL_FREQUENCY).wmode = NATURAL_FREQUENCY
    /\ SwitchedTo(World, NATURAL_FREQUENCY).dmode = NATURAL_FREQUENCY
    /\ ModeRoundTrip.wmode = STIFFNESS
    /\ \E i \in Rows :
           /\ drive[i].strength # 0
           /\ drive[i].strength
                  # compute_natural_stiffness(World, i, model_cols[i].val[4])

\* C17: whenever the callbacks of an operation have settled, the drive record of every
\* joint in the list holds the values of the four value models of its item: strength,
\* damping, natural frequency and damping ratio
C17_DriveRecordMatchesModels ==
    has_widget =>
        \A i \in Rows :
            /\ drive[i].strength = model_cols[i].val[2]
            /\ drive[i].damping = model_cols[i].val[3]
            /\ drive[i].natural_frequency = model_cols[i].val[4]
            /\ drive[i].damping_ratio = model_cols[i].val[5]

\* a natural-frequency edit that reached a selected joint and changed the strength and
\* the natural frequency of that joint's drive record
C17_Witness ==
    /\ last.op = "edit"
    /\ last.col = 4
    /\ \E i \in Selected \ {last.item} :
           /\ drive[i].natural_frequency = model_cols[last.item].val[4]
           /\ drive[i].natural_frequency # robot[i].drive.natural_frequency
           /\ drive[i].strength # robot[i].drive.strength
           /\ drive[i].strength = model_cols[i].val[2]

\* the defaults the configuration is to have after reset_config
Defaults ==
    [density |-> 0, distance_scale |-> Scale, default_drive_type |-> JOINT_DRIVE_POSITION,
     parse_mimic |-> TRUE, merge_fixed_joints |-> TRUE, fix_base |-> TRUE,
     default_drive_strength |-> 1000 * Scale,
     default_position_drive_damping |-> 100 * Scale]

\* configuration c has the defaults
HasDefaults(c) == \A f \in DOMAIN Defaults : c[f] = Defaults[f]

\* C18: whatever the configuration was edited to, reset_config leaves it with density
\* 0.0, distance_scale 1.0, default_drive_type Position, parse_mimic, merge_fixed_joints
\* and fix_base true, default_drive_strength 1e3 and default_position_drive_damping 1e2;
\* this is the configuration after build_options; a second reset_config changes nothing
C18_ResetGivesDefaults ==
    /\ HasDefaults(reset_config(ImportConfig))
    /\ reset_config(reset_config(ImportConfig)) = reset_config(ImportConfig)
    /\ last.op = "build_options" =>
           /\ HasDefaults(ImportConfig)
           /\ reset_config(ImportConfig) = ImportConfig

\* an edited configuration, none of density, fix_base and parse_mimic at its default,
\* on which reset_config acts
C18_Witness ==
    /\ config.density # 0
    /\ ~config.fix_base
    /\ ~parse_mimic
    /\ config.self_collision
    /\ ~HasDefaults(ImportConfig)
    /\ HasDefaults(reset_config(ImportConfig))

\* a reference import with "Clear Stage on Import" checked, by either extension
CleanReferenceLoad(dest_path) ==
    /\ last'.op = "load_robot"
    /\ \/ load_robot(TRUE, TRUE, dest_path, TRUE)
       \/ omni_importer_load_robot(TRUE, dest_path)

\* _load_robot ends with the stage untouched and its coroutine only scheduled
ReturnsWithoutWaiting ==
    \A dest_path \in OutPaths :
        CleanReferenceLoad(dest_path) =>
            /\ stage' = stage
            /\ tasks'[Len(tasks')].pc = "scheduled"

\* a coroutine adds its reference in an application update that comes after its
\* new_stage_async has completed
AddsAfterNewStage ==
    \A t \in DOMAIN tasks :
        tasks[t].kind = "reference" /\ tasks'[t].added_frame # tasks[t].added_frame =>
            /\ last'.op = "update"
            /\ tasks[t].new_stage_frame >= 0
            /\ frame' > tasks[t].new_stage_frame
            /\ stage.epoch > tasks[t].scheduled_epoch
            /\ tasks[t].dest \in stage'.refs

\* C19 as stated: a reference import with "Clear Stage on Import" checked adds the
\* reference only after new_stage_async has completed and one application update has
\* passed, and _load_robot returns the destination path without waiting for that
C19_ReturnsDestination ==
    [][/\ ReturnsWithoutWaiting
       /\ AddsAfterNewStage
       /\ \A dest_path \in OutPaths :
              CleanReferenceLoad(dest_path) => returned' = dest_path]_vars

\* C19 amended: the same order, and _load_robot returns without waiting, with the
\* destination path in isaacsim.asset.importer.urdf and with nothing in
\* omni.importer.urdf
C19_ReferenceAfterNewStage ==
    [][/\ ReturnsWithoutWaiting
       /\ AddsAfterNewStage
       /\ \A dest_path \in OutPaths :
              /\ last'.op = "load_robot" /\ load_robot(TRUE, TRUE, dest_path, TRUE) =>
                     returned' = dest_path
              /\ last'.op = "load_robot" /\ omni_importer_load_robot(TRUE, dest_path) =>
                     returned' = None]_vars

\* the coroutine of a reference import has added its reference, one update after its
\* new stage, and _load_robot had returned the destination
C19_Witness ==
    \E t \in DOMAIN tasks :
        /\ tasks[t].kind = "reference"
        /\ tasks[t].new_stage_frame >= 0
        /\ tasks[t].added_frame > tasks[t].new_stage_frame
        /\ tasks[t].dest \in stage.refs
        /\ returned \in {tasks[t].dest, None}

\* the places in log at which fn was called
CallsOf(log, fn) == {k \in DOMAIN log : log[k].fn = fn}

\* C20: URDFParseAndImportFile.do calls URDFParseFile first and import_robot once, last;
\* in between it reads the destination and, only if the destination is not empty and no
\* readable file is there, creates and saves a stage file at it; a destination that
\* holds a file already is imported to again without being created anew, and an empty
\* destination imports onto the open stage with no file read or created
C20_CreatesOnlyMissingFile ==
    [][\A dest_path \in DestPaths :
          last'.op = "parse_and_import" /\ ParseAndImportFile(dest_path) =>
              LET dest == Normalize(dest_path)
                  n == Len(call_log')
              IN /\ call_log'[1].fn = "URDFParseFile"
                 /\ CallsOf(call_log', "URDFParseFile") = {1}
                 /\ CallsOf(call_log', "import_robot") = {n}
                 /\ call_log'[n].path = dest
                 /\ CallsOf(call_log', "CreateNew") # {} <=>
                        dest_path # <<>> /\ dest \notin files
                 /\ CallsOf(call_log', "CreateNew") # {} =>
                        /\ CallsOf(call_log', "read_file") = {2}
                        /\ CallsOf(call_log', "CreateNew") = {3}
                        /\ CallsOf(call_log', "Save") = {4}
                        /\ call_log'[3].path = dest
                        /\ n = 5
                 /\ CallsOf(call_log', "Save") # {} => CallsOf(call_log', "CreateNew") # {}
                 /\ dest_path # <<>> =>
                        /\ dest \in files'
                        /\ files' = files \cup {dest}
                        /\ stage' = stage
                 /\ dest_path # <<>> /\ dest \in files =>
                        /\ files' = files
                        /\ n = 3
                 /\ dest_path = <<>> =>
                        /\ n = 2
                        /\ files' = files
                        /\ stage'.robots = stage.robots + 1]_vars

\* a second import to a destination that holds a file: read, not created, imported
C20_Witness ==
    /\ last.op = "parse_and_import"
    /\ Len(call_log) = 3
    /\ call_log[2].fn = "read_file"
    /\ call_log[3].fn = "import_robot"
    /\ call_log[3].path \in files
    /\ CallsOf(call_log, "CreateNew") = {}
    /\ steps >= 2

\* C22: however often and with whatever arguments UrdfImporter(...) is called, the
\* constructor body has run at most once, every call returned the same object, and
\* Extension.window and the delegate's _importer, when both are set, are that one
\* object, so both see the same configuration and the same robot model.
C22_OneImporter ==
    /\ Len(objects) <= 1
    /\ \A j, k \in DOMAIN handles : handles[j].ref = handles[k].ref
    /\ (extension.window # NoObject /\ extension.importer # NoObject) =>
           /\ extension.window = extension.importer
           /\ objects[extension.window].config = objects[extension.importer].config
           /\ objects[extension.window].robot_model =
                  objects[extension.importer].robot_model

\* the extension was started after calls with two different arguments
C22_Witness ==
    /\ extension.started
    /\ extension.importer # NoObject
    /\ Len(handles) >= 4
    /\ \E j, k \in DOMAIN handles : handles[j].arg # handles[k].arg

\* C23: when "Create in Stage" is chosen and the stage cache does not hold exactly one
\* stage, _load_robot imports as a reference instead: URDFImportRobot runs with the
\* destination path and the reference is added to the open stage.
C23_FallsBackToReference ==
    [][\A dest_path \in OutPaths :
          last'.op = "load_robot" /\ load_robot(FALSE, FALSE, dest_path, FALSE) =>
              /\ \E k \in DOMAIN call_log' :
                     call_log'[k] = Called("import_robot", dest_path)
              /\ dest_path \in stage'.refs
              /\ call_log' # call_log \/ stage' # stage]_vars

\* C25: every cascade of callbacks started by one edit of a field or of a target combo
\* box comes to an end, whatever the selection, in both edit modes and with non-integer
\* values: the chain of calls empties within MaxCalls calls.
C25_CascadeTerminates ==
    [][last'.op \in {"edit", "target"} => ~overflow']_vars

\* a natural frequency of 1.5 typed into one of several selected rows has reached
\* another selected row, and the chain of calls has ended
C25_Witness ==
    /\ last.op = "edit"
    /\ last.col = 4
    /\ mode = NATURAL_FREQUENCY
    /\ enable_bulk_edit
    /\ Len(selection) >= 2
    /\ last.item \in Selected
    /\ model_cols[last.item].val[4] = 12
    /\ \E j \in Selected \ {last.item} : model_cols[j].val[4] = 12
    /\ ~overflow

\* C26: in Natural Frequency mode, an edit of the natural frequency of one of several
\* selected Position joints leaves the damping ratio of every joint as it was, in the
\* row's model and in the drive record.
C26_FrequencyEditKeepsRatios ==
    [][/\ last'.op = "edit"
       /\ last'.col = 4
       /\ mode = NATURAL_FREQUENCY
       /\ enable_bulk_edit
       /\ Len(selection) >= 2
       /\ last'.item \in Selected
       /\ \A j \in Selected : TargetOf(j) = "Position"
       => \A j \in Rows :
              /\ model_cols'[j].val[5] = model_cols[j].val[5]
              /\ drive'[j].damping_ratio = drive[j].damping_ratio]_vars

\* C27: a click on "Ignore Mimic", a switch of the edit mode and the building of the rows
\* all leave the target type of a joint with an empty mimic.joint as it was, in the
\* drive record and in the row's combo box.
C27_NonMimicTargetKept ==
    [][last'.op \in {"parse_mimic", "switch_mode", "draw"} =>
          \A j \in Rows :
              ~robot[j].mimic =>
                  /\ drive'[j].target_type = drive[j].target_type
                  /\ model_cols'[j].idx = model_cols[j].idx]_vars

\* C28: the joint widget's edit mode and drive type are the ones the two radio
\* collections show; in particular every run of build_joint_widget, the second on the
\* same options panel included, leaves a widget in Natural Frequency mode with Force
\* drive under radios that show the same.
C28_WidgetFollowsRadios ==
    [][last'.op = "load" =>
          /\ edit_mode_radio' = 1
          /\ drive_type_radio' = 1
          /\ mode' = NATURAL_FREQUENCY
          /\ list_mode' = NATURAL_FREQUENCY
          /\ delegate_mode' = NATURAL_FREQUENCY
          /\ drive_type' = FORCE]_vars

\* the imports a step adds to loads
NewLoads == {loads'[k] : k \in (Len(loads) + 1)..Len(loads')}

\* C24: in reference mode _load_robot is reached for a destination file that exists
\* only from the "Yes" of "URDF Confirm Overwrite", and for the default destination
\* only after the "Yes" of "URDF Confirm Path"; "No" in a window, and a start with
\* neither a source path nor a destination, import nothing.
C24_ImportNeedsYes ==
    [][/\ \A made \in NewLoads :
              made.reference =>
                  /\ made.existed => "URDF Confirm Overwrite" \in made.flow.yes
                  /\ made.existed => last'.op = "dialog_yes"
                  /\ made.default_dst => "URDF Confirm Path" \in made.flow.yes
       /\ last'.op = "dialog_no" =>
              /\ loads' = loads
              /\ files' = files
              /\ stage' = stage
              /\ Len(dialogs') = Len(dialogs) - 1
       /\ (/\ last'.op = "start_import"
           /\ models.import_as_reference
           /\ models.dst_path = DefaultDst
           /\ models.input_file = NoPath) =>
              /\ loads' = loads
              /\ files' = files
              /\ stage' = stage]_vars

\* a file that was there has been imported over after "Yes" in both windows
C24_Witness ==
    \E k \in DOMAIN loads :
        /\ loads[k].reference
        /\ loads[k].existed
        /\ loads[k].default_dst
        /\ loads[k].flow.yes = {"URDF Confirm Path", "URDF Confirm Overwrite"}
        /\ last.op = "dialog_yes"

\* C29: whenever the Import button is enabled, the importer holds a parsed robot model,
\* whatever files were chosen before and whether or not they parsed.
C29_ImportButtonHasModel == models.import_btn => robot_model # None

\* C30: convert_assets imports every path with the robot model parsed from that path,
\* at once or after its windows were confirmed; with an empty list it posts an error
\* notification and imports nothing.
C30_EachPathItsOwnModel ==
    [][/\ \A made \in NewLoads :
              made.flow.origin = "convert_assets" /\ made.flow.count >= 2 =>
                  made.robot = made.path
       /\ (last'.op = "convert_assets" /\ last'.item = 0) =>
              /\ notified' = notified + 1
              /\ loads' = loads
              /\ dialogs' = dialogs]_vars

====
